---- MODULE Spec2Model ----
(***************************************************************************)
(* Access-control and audit subsystem of shadi-recommendation             *)
(* (src/lib/security/zero-trust.ts, src/lib/security/index.ts audit part). *)
(*                                                                         *)
(* A request is a process that runs operations of zero-trust.ts one after  *)
(* the other.  Every await of the source is a step of its own, so that     *)
(* other requests, the clock, the storage and the flush timer interleave   *)
(* at exactly the suspension points of the code.                           *)
(***************************************************************************)
EXTENDS Integers, Sequences, FiniteSets, TLC

\* ---------------------------------------------------------------- bounds
MaxTicks == 1        \* clock ticks explored
TickMs == 500        \* milliseconds per clock tick
StartMs == 1000      \* wall clock at the first state
MaxOps == 2          \* operations one request handler runs
MaxOpsTwo == 1       \* the same, when two handlers overlap
MaxRoleWrites == 1   \* role updates applied to the profiles table
MaxOwnerWrites == 1  \* resource rows changed by other requests
MaxRoleOps == 1      \* updateUserRole calls one request handler makes

\* ------------------------------------------------------------ input sets
Requests == {"rA", "rB"}
Users == {"u1", "u2"}
NoId == "null"                       \* JS null / undefined for an id
Absent == "undefined"                \* JS undefined for a metadata key

\* what the request's credential resolves to in supabase.auth.getUser()
Credentials == {"anon", "invalid"} \cup Users

\* session cookie: present or not; expires_at in seconds, 0 = missing/falsy
ExpiryInputs == {0, 1, 2}
NoSession == [present |-> FALSE, expires_at |-> 0]
Sessions == {NoSession} \cup {[present |-> TRUE, expires_at |-> e] : e \in ExpiryInputs}

\* profiles.role as persisted: NoRow = no profile row, NullRole = a row whose
\* role is NULL; any text can be stored, "constructor" is one that names a
\* member every JS object inherits
NoRow == "norow"
NullRole == "NULL"
Roles == {"user", "moderator", "admin"}
PersistedRoles == Roles \cup {"superadmin", "constructor", NoRow, NullRole}

EmailOf == [u \in Users |-> IF u = "u1" THEN "u1@example.com" ELSE Absent]

\* --------------------------------------------------- Permission Catalog
PERMISSIONS ==
    { "profile:read", "profile:update", "reviews:create",
      "reviews:update:own", "reviews:delete:own",
      "reviews:update:any", "reviews:delete:any", "users:view",
      "users:manage", "roles:manage", "settings:manage", "audit:view" }

ROLE_PERMISSIONS ==
    [ user |-> { "profile:read", "profile:update", "reviews:create",
                 "reviews:update:own", "reviews:delete:own" },
      moderator |-> { "profile:read", "profile:update", "reviews:create",
                      "reviews:update:own", "reviews:delete:own",
                      "reviews:update:any", "reviews:delete:any", "users:view" },
      admin |-> PERMISSIONS ]

\* const role = profile?.role ?? "user"   (a cast, not a validation)
RoleOfProfile(persisted) == IF persisted \in {NoRow, NullRole} THEN "user" ELSE persisted

\* ROLE_PERMISSIONS is a plain object: a lookup by a name it does not define
\* itself finds the member of that name inherited from Object.prototype
ObjectPrototypeMembers ==
    { "constructor", "__defineGetter__", "__defineSetter__", "hasOwnProperty",
      "__lookupGetter__", "__lookupSetter__", "isPrototypeOf", "propertyIsEnumerable",
      "toString", "valueOf", "__proto__", "toLocaleString" }
\* such a member: a function (or the prototype object), not a Permission[]
InheritedMember == {"[inherited]"}

\* const permissions = ROLE_PERMISSIONS[role] ?? ROLE_PERMISSIONS.user
PermissionsOfRole(role) ==
    IF role \in DOMAIN ROLE_PERMISSIONS THEN ROLE_PERMISSIONS[role]
    ELSE IF role \in ObjectPrototypeMembers THEN InheritedMember
    ELSE ROLE_PERMISSIONS["user"]

\* const expiresAt = session.expires_at ? session.expires_at * 1000 : 0
ExpiresAtMs(session) ==
    IF session.expires_at # 0 THEN session.expires_at * 1000 ELSE 0

\* an expiry test that already fails at the deadline itself
SessionExpiredAtDeadline(session, nowMs) == ExpiresAtMs(session) <= nowMs
\* if (expiresAt < Date.now())
SessionExpired(session, nowMs) == ExpiresAtMs(session) < nowMs

\* ------------------------------------------------ results of verifySession
NullResult == [kind |-> "null", id |-> NoId, email |-> "", role |-> "",
               permissions |-> {}, sessionValid |-> FALSE, lastVerified |-> 0]
ThrewResult == [kind |-> "threw", id |-> NoId, email |-> "", role |-> "",
                permissions |-> {}, sessionValid |-> FALSE, lastVerified |-> 0]

\* the object literal returned at the end of verifySession
VerifiedUser(u, persisted, nowMs) ==
    [kind |-> "user", id |-> u,
     email |-> IF EmailOf[u] = Absent THEN "" ELSE EmailOf[u],
     role |-> RoleOfProfile(persisted),
     permissions |-> PermissionsOfRole(RoleOfProfile(persisted)),
     sessionValid |-> TRUE, lastVerified |-> nowMs]

\* ------------------------------------------------------------ Audit Logger
BUFFER_SIZE == 10
FLUSH_INTERVAL == 5000

ACTION_SEVERITY ==
    [ auth_login |-> "info", auth_logout |-> "info", auth_signup |-> "info",
      auth_password_reset |-> "warning", auth_password_change |-> "warning",
      auth_failed_login |-> "warning",
      profile_view |-> "info", profile_update |-> "info", profile_delete |-> "warning",
      data_create |-> "info", data_update |-> "info", data_delete |-> "warning",
      data_export |-> "warning",
      admin_role_change |-> "critical", admin_user_delete |-> "critical",
      admin_settings_update |-> "warning", admin_impersonation |-> "critical",
      security_rate_limit |-> "warning", security_csrf_blocked |-> "error",
      security_unauthorized |-> "error", security_suspicious |-> "critical" ]

\* metadata objects passed by zero-trust.ts; keys a call does not set are Absent
Metadata(reason, redirect, required, userRole) ==
    [reason |-> reason, redirect |-> redirect, required |-> required, userRole |-> userRole]

\* getRequestContext(): headers() throws outside a request scope -> both null
RequestContext(headersOk) == [ip |-> IF headersOk THEN "10.0.0.1" ELSE NoId]

\* new Date().toISOString(): the instant as a calendar date (days since the
\* epoch) and a time of day (ms); 90 days of ms do not fit a 32-bit integer
MsPerDay == 24 * 60 * 60 * 1000
ToISOString(nowMs) == [date |-> nowMs \div MsPerDay, time |-> nowMs % MsPerDay]

\* the AuditLogEntry built by securityEvent(action, metadata, userId)
SecurityEventEntry(action, metadata, userId, ctx, nowMs) ==
    [timestamp |-> ToISOString(nowMs), action |-> action, severity |-> ACTION_SEVERITY[action], user_id |-> userId,
     ip_address |-> ctx.ip, metadata |-> metadata, success |-> FALSE]

\* the entry built by userAction(action, userId, metadata = {}, success = true)
UserActionEntry(action, userId, metadata, success, errorMessage, ctx, nowMs) ==
    [timestamp |-> ToISOString(nowMs), action |-> action, severity |-> ACTION_SEVERITY[action], user_id |-> userId,
     ip_address |-> ctx.ip, metadata |-> metadata, success |-> success,
     error_message |-> errorMessage]

\* the entry built by dataModification(action, userId, targetType, targetId,
\* changes = {}, success = true)
DataModificationEntry(action, userId, targetType, targetId, changes, success, ctx, nowMs) ==
    [timestamp |-> ToISOString(nowMs), action |-> action, severity |-> ACTION_SEVERITY[action], user_id |-> userId,
     target_type |-> targetType, target_id |-> targetId, ip_address |-> ctx.ip,
     metadata |-> [changes |-> changes], success |-> success]

\* { ...metadata, admin_action: true }
WithAdminFlag(metadata) ==
    [k \in DOMAIN metadata \cup {"admin_action"} |->
        IF k = "admin_action" THEN "true" ELSE metadata[k]]

\* the entry built by adminAction(action, adminUserId, targetUserId, metadata = {})
AdminActionEntry(action, adminUserId, targetUserId, metadata, ctx, nowMs) ==
    [timestamp |-> ToISOString(nowMs), action |-> action, severity |-> ACTION_SEVERITY[action], user_id |-> adminUserId,
     target_id |-> targetUserId, target_type |-> "user", ip_address |-> ctx.ip,
     metadata |-> WithAdminFlag(metadata), success |-> TRUE]

\* JSON.stringify(entry.metadata): the row stores text, not the object
JsonStringify(metadata) == [json |-> metadata]

\* entries.map(entry => ({...entry, metadata: JSON.stringify(entry.metadata)}))
RowsOf(entries) ==
    [i \in 1..Len(entries) |->
        [entries[i] EXCEPT !.metadata = JsonStringify(entries[i].metadata)]]

\* a log() that arms a timer for every buffered entry
ArmTimerAlways(timer) == TRUE
\* if (!this.flushTimeout) this.flushTimeout = setTimeout(...)
ArmTimer(timer) == ~timer

\* a flush that leaves the newest entry behind
FlushStepPartial(buf) ==
    [buffer |-> IF buf = <<>> THEN <<>> ELSE <<buf[Len(buf)]>>, timer |-> FALSE,
     arm |-> FALSE, batch |-> IF buf = <<>> THEN <<>> ELSE SubSeq(buf, 1, Len(buf) - 1)]
\* flush(): clears the timer, empties the buffer, hands the copy to the write
FlushStep(buf) == [buffer |-> <<>>, timer |-> FALSE, arm |-> FALSE, batch |-> buf]

\* a log() without the critical branch: every entry is buffered
LogStepAllBuffered(buf, timer, entry) ==
    IF Len(Append(buf, entry)) >= BUFFER_SIZE
    THEN FlushStep(Append(buf, entry))
    ELSE [buffer |-> Append(buf, entry), timer |-> TRUE, arm |-> ArmTimer(timer),
          batch |-> <<>>]
\* log(entry): the synchronous part, up to the first await.  Yields the new
\* buffer, the new timer flag, whether setTimeout is called, and the batch
\* handed to writeToDatabase (<<>> when nothing is written by this call).
LogStep(buf, timer, entry) ==
    IF entry.severity = "critical"
    THEN [buffer |-> buf, timer |-> timer, arm |-> FALSE, batch |-> <<entry>>]
    ELSE IF Len(Append(buf, entry)) >= BUFFER_SIZE
         THEN FlushStep(Append(buf, entry))
         ELSE [buffer |-> Append(buf, entry), timer |-> TRUE, arm |-> ArmTimer(timer),
               batch |-> <<>>]

\* a write whose rows reach the table even when insert reports a failure
WriteResultAlways(db, entries, outcome) == db \o RowsOf(entries)
\* writeToDatabase(entries): rows are appended only when insert succeeds;
\* an error result or an exception is swallowed
WriteResult(db, entries, outcome) ==
    IF outcome = "ok" THEN db \o RowsOf(entries) ELSE db

\* the entries of a failed write: reported to the console in development
\* (if (error) {...}, catch (err) {...}) and kept nowhere
Dropped(ledg, entries, outcome) ==
    IF outcome = "ok" THEN ledg ELSE [ledg EXCEPT !.lost = @ + Len(entries)]

\* a writeToDatabase without its try/catch
WriteRaisesOnThrow(outcome) == outcome = "throw"
\* does writeToDatabase reject?  try { ... } catch (err) { ... } never rethrows
WriteRaises(outcome) == FALSE

\* bookkeeping of setTimeout/clearTimeout: timers set, cancelled before
\* firing, fired, the deadline of the pending one (-1 when none), and whether
\* a timer-driven flush rejected or had its write throw
NoTimers == [set |-> 0, cancelled |-> 0, fired |-> 0, due |-> -1, rejected |-> FALSE,
             writeThrew |-> FALSE]
TimerUpdate(t, pending, step, nowMs) ==
    [t EXCEPT !.set = @ + (IF step.arm THEN 1 ELSE 0),
              !.cancelled = @ + (IF pending /\ ~step.timer THEN 1 ELSE 0),
              !.due = IF step.arm THEN nowMs + FLUSH_INTERVAL
                      ELSE IF step.timer THEN @ ELSE -1]

CollabOutcomes == {"ok", "error", "throw"}

\* ------------------------------------------------------------------ state
VARIABLES
    now,          \* Date.now() in ms
    ticks,        \* clock ticks taken
    profiles,     \* profiles table: user id -> persisted role
    roleWrites,   \* role updates applied so far
    resources,    \* resource table: id -> owner (user_id) or NoRow
    cred,         \* per request: what the credential resolves to
    sess,         \* per request: the session cookie
    req,          \* per request: "new", "open", "redirected", "closed"
    startedAt,    \* per request: roleWrites when its handler began
    opsDone,      \* per request: operations started
    opLimit,      \* operations a handler of this run may start
    rendering,    \* per request: its calls are made while a Server Component renders
    cache,        \* per cache scope: the memoized verifySession promise
    stats,        \* per request: collaborator calls made by its verifySession runs
    returned,     \* per request: results verifySession calls resolved to
    op,           \* per request: the operation in progress or last completed
    buffer,       \* AuditLogger.buffer
    flushTimeout, \* AuditLogger.flushTimeout is set
    timerWrites,  \* batches the timer flush handed to writeToDatabase
    timers,       \* setTimeout / clearTimeout calls made by the logger
    auditDb,      \* rows of audit_logs
    ledger,       \* entries the logger was given, entries whose write failed, rows purged
    recentActivity, \* the recentActivity map: identity -> ActivityContext[]
    arrivals,     \* per identity: every context trackActivity was given, in order
    ipRequestCounts, \* the proxy's ipRequestCounts map: ip -> { count, resetTime }
    passed,       \* per ip: /api/ requests of its current window not answered 429
    exchange,     \* the last request the proxy handled, and its response
    proxyDone     \* requests the proxy has handled

vars == << now, ticks, profiles, roleWrites, resources, cred, sess, req, startedAt,
           opsDone, opLimit, rendering, cache, stats, returned, op, buffer, flushTimeout, timerWrites,
           timers, auditDb, ledger, recentActivity, arrivals, ipRequestCounts, passed,
           exchange, proxyDone >>

envVars == << profiles, roleWrites, resources, cred, sess, opLimit, rendering >>
clockVars == << now, ticks >>
auditVars == << buffer, flushTimeout, timerWrites, timers, auditDb, ledger >>
activityVars == << recentActivity, arrivals >>
proxyVars == << ipRequestCounts, passed, exchange, proxyDone >>

\* React's cache(): one memo table per request (the request store)
CacheScopeShared(r) == "rA"
CacheScope(r) == r

\* cache(fn) reads and fills its memo table only while a Server Component
\* renders; called from a Route Handler or a Server Action it has no table and
\* runs fn on every call.  In a render the call is memoized when the table
\* has an entry for it (the call takes no argument).
Memoized(c, inRender) == inRender /\ c.pc # "unset"

\* every request renders a Server Component
InRender == [r \in Requests |-> TRUE]
\* the request rA is served by a Route Handler
InRouteHandler == [r \in Requests |-> r # "rA"]

\* what a rejected await hands to the catch: an Error with its message, or
\* some other thrown value
NothingThrown == [isError |-> FALSE, message |-> ""]
ThrownBy(collaborator) ==
    { [isError |-> TRUE, message |-> collaborator \o " failed"], NothingThrown }

UnsetCache == [pc |-> "unset", owner |-> "none", user |-> NoId, checkedAt |-> -1,
               lookup |-> "none", val |-> NullResult, thrown |-> NothingThrown]
ZeroStats == [runs |-> 0, getUser |-> 0, getSession |-> 0, signOut |-> 0, roleLookup |-> 0]

NoRet == [allowed |-> FALSE, reason |-> Absent, user |-> NullResult]
IdleOp == [name |-> "none", perms |-> {}, arg |-> "", target |-> "", resId |-> "", act |-> "",
           pc |-> "idle", outcome |-> "none", ret |-> NoRet, emitted |-> <<>>,
           lookups |-> 0, lookup |-> "none", row |-> NoRow, dest |-> "", batch |-> <<>>,
           action |-> "", userId |-> NoId, written |-> "none",
           snap |-> [buf |-> 0, rows |-> 0, quiet |-> TRUE], rowsAtEnd |-> 0,
           arrival |-> 0, last5Minutes |-> <<>>]

\* ------------------------------------------------------------ operation inputs
PermInputs == {"profile:read", "users:view", "users:manage"}
ArrayInputs == {{}, {"users:view"}, {"profile:read", "users:manage"}}
\* the redirectTo argument: left out (the default applies) or a custom page
TargetInputs == {Absent, "/denied"}
ResourceIds == {"res1", "res2", "resX"}
ActionInputs == {"read", "update", "delete", "archive"}
ResourceTable == [res1 |-> "u1", res2 |-> "u2", resX |-> NoRow]

\* ------------------------------------------------------------ verifySession
\* The body below runs once per memo entry; `owner' is the request whose
\* call created the entry (its cookies are the ones createClient reads).

Bump(r, field) == [stats EXCEPT ![r][field] = @ + 1]

Settle(s, v) == cache' = [cache EXCEPT ![s].pc = "settled", ![s].val = v]

\* { data: { user }, error: authError } of supabase.auth.getUser()
GetUserResult(credential, outcome) ==
    IF outcome = "error" \/ credential = "invalid" THEN [user |-> NoId, error |-> TRUE]
    ELSE IF credential = "anon" THEN [user |-> NoId, error |-> FALSE]
    ELSE [user |-> credential, error |-> FALSE]

\* if (authError || !user) return null
AuthRejected(res) == res.error \/ res.user = NoId

\* { data: profile } of profiles.select("role").eq("id", id).single():
\* the error is not read, data is null on an error result
ProfileLookup(table, u, outcome) == IF outcome = "ok" THEN table[u] ELSE NoRow

\* const supabase = await createClient()
VsCreateClient(s) ==
    /\ cache[s].pc = "createClient"
    /\ \E outcome \in {"ok", "throw"} :
         IF outcome = "throw" THEN Settle(s, ThrewResult)
         ELSE cache' = [cache EXCEPT ![s].pc = "getUser"]
    /\ UNCHANGED << envVars, proxyVars, activityVars, clockVars, auditVars, req, startedAt, opsDone, stats,
                    returned, op >>

\* Step 1: await supabase.auth.getUser()
VsGetUser(s) ==
    /\ cache[s].pc = "getUser"
    /\ stats' = Bump(cache[s].owner, "getUser")
    /\ \E outcome \in CollabOutcomes :
         IF outcome = "throw" THEN Settle(s, ThrewResult)
         ELSE LET res == GetUserResult(cred[cache[s].owner], outcome) IN
              IF AuthRejected(res) THEN Settle(s, NullResult)
              ELSE cache' = [cache EXCEPT ![s].pc = "getSession", ![s].user = res.user]
    /\ UNCHANGED << envVars, proxyVars, activityVars, clockVars, auditVars, req, startedAt, opsDone,
                    returned, op >>

\* Step 2 and 3: await supabase.auth.getSession(), then the expiry test
VsGetSession(s) ==
    /\ cache[s].pc = "getSession"
    /\ stats' = Bump(cache[s].owner, "getSession")
    /\ \E outcome \in {"ok", "throw"} :
         IF outcome = "throw" THEN Settle(s, ThrewResult)
         ELSE LET session == sess[cache[s].owner] IN
              IF ~session.present THEN Settle(s, NullResult)
              ELSE IF SessionExpired(session, now)
                   THEN cache' = [cache EXCEPT ![s].pc = "signOut", ![s].checkedAt = now]
                   ELSE cache' = [cache EXCEPT ![s].pc = "profile", ![s].checkedAt = now]
    /\ UNCHANGED << envVars, proxyVars, activityVars, clockVars, auditVars, req, startedAt, opsDone,
                    returned, op >>

\* what a signOut() that resolved without an error leaves of the request's
\* session cookie: a render cannot write cookies and keeps it; a Route Handler
\* or Server Action can, and the client from createClient() removes it or not
SignOutClears(outcome, inRender) ==
    IF outcome = "ok" /\ ~inRender THEN {TRUE, FALSE} ELSE {FALSE}
\* await supabase.auth.signOut(); return null
VsSignOut(s) ==
    /\ cache[s].pc = "signOut"
    /\ stats' = Bump(cache[s].owner, "signOut")
    /\ \E outcome \in CollabOutcomes :
         /\ IF outcome = "throw" THEN Settle(s, ThrewResult) ELSE Settle(s, NullResult)
         /\ \E cleared \in SignOutClears(outcome, rendering[cache[s].owner]) :
              IF cleared
              THEN /\ cred' = [cred EXCEPT ![cache[s].owner] = "anon"]
                   /\ sess' = [sess EXCEPT ![cache[s].owner] = NoSession]
              ELSE UNCHANGED << cred, sess >>
    /\ UNCHANGED << profiles, roleWrites, resources, opLimit, rendering, proxyVars, activityVars, clockVars,
                    auditVars, req, startedAt, opsDone, returned, op >>

\* Step 4: the role lookup, then the returned object
VsProfile(s) ==
    /\ cache[s].pc = "profile"
    /\ stats' = Bump(cache[s].owner, "roleLookup")
    /\ \E outcome \in CollabOutcomes :
         IF outcome = "throw"
         THEN cache' = [cache EXCEPT ![s].pc = "settled", ![s].val = ThrewResult,
                                     ![s].lookup = outcome]
         ELSE cache' = [cache EXCEPT
                  ![s].pc = "settled", ![s].lookup = outcome,
                  ![s].val = VerifiedUser(cache[s].user,
                                          ProfileLookup(profiles, cache[s].user, outcome),
                                          now)]
    /\ UNCHANGED << envVars, proxyVars, activityVars, clockVars, auditVars, req, startedAt, opsDone,
                    returned, op >>

\* requireAuth(redirectTo = "/login")
RequireAuthRedirectTo(arg) == IF arg = Absent THEN "/login" ELSE arg

\* requirePermission(permission, redirectTo = "/unauthorized")
RequirePermissionRedirectTo(arg) == IF arg = Absent THEN "/unauthorized" ELSE arg

\* the value of the redirectTo parameter inside the called guard
RedirectTo(name, arg) ==
    CASE name = "requireAuth" -> RequireAuthRedirectTo(arg)
      [] name = "requirePermission" -> RequirePermissionRedirectTo(arg)
      [] OTHER -> arg

\* ------------------------------------------------------- calling an operation
\* Every operation of zero-trust.ts begins with `await verifySession()': the
\* call either finds the memo entry or starts the body (whose promise `cache'
\* then holds: the memo entry in a render, the call's own promise elsewhere).
StartOp(r, name, perms, target, resId, act) ==
    /\ req[r] \in {"new", "open"}
    /\ op[r].pc = "idle"
    /\ opsDone[r] < opLimit
    /\ req' = [req EXCEPT ![r] = "open"]
    /\ startedAt' = IF req[r] = "new" THEN [startedAt EXCEPT ![r] = roleWrites]
                    ELSE startedAt
    /\ opsDone' = [opsDone EXCEPT ![r] = @ + 1]
    /\ op' = [op EXCEPT ![r] = [IdleOp EXCEPT !.name = name, !.perms = perms,
                                   !.arg = target, !.target = RedirectTo(name, target),
                                   !.resId = resId, !.act = act,
                                   !.pc = "verify", !.outcome = "running"]]
    /\ IF Memoized(cache[CacheScope(r)], rendering[r])
       THEN UNCHANGED << cache, stats >>
       ELSE /\ cache' = [cache EXCEPT ![CacheScope(r)] =
                            [UnsetCache EXCEPT !.pc = "createClient", !.owner = r]]
            /\ stats' = Bump(r, "runs")
    /\ UNCHANGED << envVars, proxyVars, activityVars, clockVars, auditVars, returned >>

CallVerifySession(r) == StartOp(r, "verifySession", {}, "", "", "")
CallHasPermission(r) == \E p \in PermInputs : StartOp(r, "hasPermission", {p}, "", "", "")
CallHasAnyPermission(r) ==
    \E ps \in ArrayInputs : StartOp(r, "hasAnyPermission", ps, "", "", "")
CallHasAllPermissions(r) ==
    \E ps \in ArrayInputs : StartOp(r, "hasAllPermissions", ps, "", "", "")
CallCheckAccess(r) ==
    \E ps \in {{}} \cup {{p} : p \in PermInputs} : StartOp(r, "checkAccess", ps, "", "", "")
CallRequireAuth(r) == \E t \in TargetInputs : StartOp(r, "requireAuth", {}, t, "", "")
CallRequirePermission(r) ==
    \E p \in PermInputs, t \in TargetInputs : StartOp(r, "requirePermission", {p}, t, "", "")
CallCanAccessResource(r) ==
    \E id \in ResourceIds, a \in ActionInputs :
        StartOp(r, "canAccessResource", {}, "", id, a)

\* ----------------------------------------------- after `await verifySession()'
Verified(r) == cache[CacheScope(r)].val

Resumes(r, name) ==
    /\ op[r].pc = "verify"
    /\ op[r].name = name
    /\ cache[CacheScope(r)].pc = "settled"
    /\ Verified(r).kind # "threw"

Finish(r, outcome, ret) ==
    op' = [op EXCEPT ![r].pc = "idle", ![r].outcome = outcome, ![r].ret = ret]

Deliver(r) == returned' = [returned EXCEPT ![r] = @ \cup {Verified(r)}]

\* user.permissions.includes(permission)
Includes(user, p) == p \in user.permissions

\* user.permissions.includes is not a function: the call throws a TypeError
IncludesThrows(user) == user.permissions = InheritedMember
\* the operation rejects with that TypeError
Throws(r) ==
    Finish(r, "threw", [NoRet EXCEPT !.reason = "TypeError", !.user = Verified(r)])

\* no operation catches: a rejected verifySession rejects the operation
VerifyRejected(r) ==
    /\ op[r].pc = "verify"
    /\ cache[CacheScope(r)].pc = "settled"
    /\ Verified(r).kind = "threw"
    /\ Deliver(r)
    /\ Finish(r, "threw", [NoRet EXCEPT !.user = Verified(r)])
    /\ UNCHANGED << envVars, proxyVars, activityVars, clockVars, auditVars, req, startedAt, opsDone, cache, stats >>

ResumeVerifySession(r) ==
    /\ Resumes(r, "verifySession")
    /\ Deliver(r)
    /\ Finish(r, "returned", [allowed |-> Verified(r).kind = "user", reason |-> Absent,
                              user |-> Verified(r)])
    /\ UNCHANGED << envVars, proxyVars, activityVars, clockVars, auditVars, req, startedAt, opsDone, cache, stats >>

\* which calls reach includes(): every() and some() call it for the first
\* element of a non-empty array, checkAccess only when a permission is passed
HasPermissionThrows(user) == user.kind = "user" /\ IncludesThrows(user)
ArrayTestThrows(user, ps) == user.kind = "user" /\ ps # {} /\ IncludesThrows(user)

HasPermission(user, p) == IF user.kind # "user" THEN FALSE ELSE Includes(user, p)
HasAnyPermission(user, ps) ==
    IF user.kind # "user" THEN FALSE ELSE \E p \in ps : Includes(user, p)
HasAllPermissions(user, ps) ==
    IF user.kind # "user" THEN FALSE ELSE \A p \in ps : Includes(user, p)

ResumeHasPermission(r) ==
    /\ Resumes(r, "hasPermission")
    /\ Deliver(r)
    /\ \E p \in op[r].perms :
         IF HasPermissionThrows(Verified(r)) THEN Throws(r)
         ELSE Finish(r, "returned", [NoRet EXCEPT !.allowed = HasPermission(Verified(r), p)])
    /\ UNCHANGED << envVars, proxyVars, activityVars, clockVars, auditVars, req, startedAt, opsDone, cache, stats >>

ResumeHasAnyPermission(r) ==
    /\ Resumes(r, "hasAnyPermission")
    /\ Deliver(r)
    /\ IF ArrayTestThrows(Verified(r), op[r].perms) THEN Throws(r)
       ELSE Finish(r, "returned",
                   [NoRet EXCEPT !.allowed = HasAnyPermission(Verified(r), op[r].perms)])
    /\ UNCHANGED << envVars, proxyVars, activityVars, clockVars, auditVars, req, startedAt, opsDone, cache, stats >>

ResumeHasAllPermissions(r) ==
    /\ Resumes(r, "hasAllPermissions")
    /\ Deliver(r)
    /\ IF ArrayTestThrows(Verified(r), op[r].perms) THEN Throws(r)
       ELSE Finish(r, "returned",
                   [NoRet EXCEPT !.allowed = HasAllPermissions(Verified(r), op[r].perms)])
    /\ UNCHANGED << envVars, proxyVars, activityVars, clockVars, auditVars, req, startedAt, opsDone, cache, stats >>

\* checkAccess with the permission test left out
CheckAccessAnyPermission(user, perms) ==
    IF user.kind # "user"
    THEN [allowed |-> FALSE, reason |-> "Not authenticated", user |-> NullResult]
    ELSE [allowed |-> TRUE, reason |-> Absent, user |-> user]

\* checkAccess(permission?): perms = {} when no permission is passed
CheckAccess(user, perms) ==
    IF user.kind # "user"
    THEN [allowed |-> FALSE, reason |-> "Not authenticated", user |-> NullResult]
    ELSE IF perms # {} /\ \E p \in perms : ~Includes(user, p)
         THEN [allowed |-> FALSE, reason |-> "Insufficient permissions", user |-> user]
         ELSE [allowed |-> TRUE, reason |-> Absent, user |-> user]

ResumeCheckAccess(r) ==
    /\ Resumes(r, "checkAccess")
    /\ Deliver(r)
    /\ IF ArrayTestThrows(Verified(r), op[r].perms) THEN Throws(r)
       ELSE Finish(r, "returned", CheckAccess(Verified(r), op[r].perms))
    /\ UNCHANGED << envVars, proxyVars, activityVars, clockVars, auditVars, req, startedAt, opsDone, cache, stats >>

\* --------------------------------------------------------- Guard Entry Points
\* requireAuth: if (!user) { await securityEvent(...); redirect(redirectTo) }
RequireAuthDeniesNever(user) == FALSE
RequireAuthDenies(user) == user.kind # "user"

\* requirePermission: if (!user.permissions.includes(permission)) {...}
RequirePermissionDenies(user, p) == ~Includes(user, p)

ResumeRequireAuth(r) ==
    /\ Resumes(r, "requireAuth")
    /\ Deliver(r)
    /\ IF RequireAuthDenies(Verified(r))
       THEN op' = [op EXCEPT ![r].pc = "auditCtx", ![r].ret.user = Verified(r)]
       ELSE Finish(r, "returned", [allowed |-> TRUE, reason |-> Absent,
                                   user |-> Verified(r)])
    /\ UNCHANGED << envVars, proxyVars, activityVars, clockVars, auditVars, req, startedAt, opsDone, cache, stats >>

\* requirePermission: const user = await requireAuth(redirectTo), then the test
ResumeRequirePermission(r) ==
    /\ Resumes(r, "requirePermission")
    /\ Deliver(r)
    /\ \E p \in op[r].perms :
         IF RequireAuthDenies(Verified(r))
         THEN op' = [op EXCEPT ![r].pc = "auditCtx", ![r].ret.user = Verified(r)]
         ELSE IF HasPermissionThrows(Verified(r)) THEN Throws(r)
         ELSE IF RequirePermissionDenies(Verified(r), p)
         THEN op' = [op EXCEPT ![r].pc = "auditCtx", ![r].ret.user = Verified(r)]
         ELSE Finish(r, "returned", [allowed |-> TRUE, reason |-> Absent,
                                     user |-> Verified(r)])
    /\ UNCHANGED << envVars, proxyVars, activityVars, clockVars, auditVars, req, startedAt, opsDone, cache, stats >>

\* the entry the denied guard hands to auditLog.securityEvent
DenialEntry(o, ctx, nowMs) ==
    IF RequireAuthDenies(o.ret.user)
    THEN SecurityEventEntry("security_unauthorized",
                            Metadata("No valid session", o.target, Absent, Absent),
                            NoId, ctx, nowMs)
    ELSE SecurityEventEntry("security_unauthorized",
                            Metadata("Insufficient permissions", Absent,
                                     CHOOSE p \in o.perms : TRUE, o.ret.user.role),
                            o.ret.user.id, ctx, nowMs)

\* securityEvent: await getRequestContext(), build the entry, log(entry) up to
\* its await (the write of a flushed batch) or to its end
AuditCtx(r) ==
    /\ op[r].pc = "auditCtx"
    /\ \E headersOk \in BOOLEAN :
         LET entry == DenialEntry(op[r], RequestContext(headersOk), now)
             step == LogStep(buffer, flushTimeout, entry)
         IN /\ buffer' = step.buffer
            /\ flushTimeout' = step.timer
            /\ timers' = TimerUpdate(timers, flushTimeout, step, now)
            /\ ledger' = [ledger EXCEPT !.created = @ + 1]
            /\ op' = [op EXCEPT ![r].emitted = Append(@, entry),
                                ![r].batch = step.batch,
                                ![r].pc = IF step.batch = <<>> THEN "redirect"
                                          ELSE "auditWrite"]
    /\ UNCHANGED << envVars, proxyVars, activityVars, clockVars, timerWrites, auditDb, req, startedAt, opsDone,
                    cache, stats, returned >>

\* await this.writeToDatabase(entries) of the call that flushed
AuditWrite(r) ==
    /\ op[r].pc = "auditWrite"
    /\ \E outcome \in CollabOutcomes :
         /\ auditDb' = WriteResult(auditDb, op[r].batch, outcome)
         /\ ledger' = Dropped(ledger, op[r].batch, outcome)
         /\ IF WriteRaises(outcome)
            THEN op' = [op EXCEPT ![r].pc = "idle", ![r].outcome = "threw",
                                  ![r].batch = <<>>]
            ELSE op' = [op EXCEPT ![r].pc = "redirect", ![r].batch = <<>>]
    /\ UNCHANGED << envVars, proxyVars, activityVars, clockVars, buffer, flushTimeout, timerWrites, timers, req,
                    startedAt, opsDone, cache, stats, returned >>

\* redirect(redirectTo): throws NEXT_REDIRECT, the handler ends
Redirect(r) ==
    /\ op[r].pc = "redirect"
    /\ op' = [op EXCEPT ![r].pc = "idle", ![r].outcome = "redirected",
                        ![r].dest = op[r].target]
    /\ req' = [req EXCEPT ![r] = "redirected"]
    /\ UNCHANGED << envVars, proxyVars, activityVars, clockVars, auditVars, startedAt, opsDone, cache, stats,
                    returned >>

\* ---------------------------------------------------- Resource Ownership Guard
\* { data: resource } of from(type).select("user_id").eq("id", id).single()
\* a lookup that yields a row object even when nothing matched
ResourceLookupAlwaysRow(table, id, outcome) ==
    IF outcome = "ok" /\ table[id] # NoRow THEN table[id] ELSE "nobody"
ResourceLookup(table, id, outcome) == IF outcome = "ok" THEN table[id] ELSE NoRow

\* the decision with the moderator override left out
OwnershipDecisionOwnerOnly(user, owner, act) ==
    IF owner = NoRow
    THEN [allowed |-> FALSE, reason |-> "Resource not found", user |-> user]
    ELSE CASE act = "read" -> [allowed |-> TRUE, reason |-> Absent, user |-> user]
           [] act \in {"update", "delete"} ->
                IF owner = user.id THEN [allowed |-> TRUE, reason |-> Absent, user |-> user]
                ELSE [allowed |-> FALSE, reason |-> "Not resource owner", user |-> user]
           [] OTHER -> [allowed |-> FALSE, reason |-> "Unknown action", user |-> user]

\* the part of canAccessResource after the lookup
OwnershipDecision(user, owner, act) ==
    IF owner = NoRow
    THEN [allowed |-> FALSE, reason |-> "Resource not found", user |-> user]
    ELSE LET isOwner == owner = user.id IN
         CASE act = "read" -> [allowed |-> TRUE, reason |-> Absent, user |-> user]
           [] act \in {"update", "delete"} ->
                IF isOwner THEN [allowed |-> TRUE, reason |-> Absent, user |-> user]
                ELSE IF user.role = "moderator"
                     THEN [allowed |-> TRUE, reason |-> Absent, user |-> user]
                     ELSE [allowed |-> FALSE, reason |-> "Not resource owner",
                           user |-> user]
           [] OTHER -> [allowed |-> FALSE, reason |-> "Unknown action", user |-> user]

\* if (user.role === "admin") return { allowed: true, user }
AdminBypassNever(user) == FALSE
AdminBypass(user) == user.role = "admin"

\* a guard that sends admins to the ownership lookup as well
ResumeCanAccessResourceNoBypass(r) ==
    /\ Resumes(r, "canAccessResource")
    /\ Deliver(r)
    /\ IF Verified(r).kind # "user"
       THEN Finish(r, "returned", [allowed |-> FALSE, reason |-> "Not authenticated",
                                   user |-> NullResult])
       ELSE op' = [op EXCEPT ![r].pc = "resClient", ![r].ret.user = Verified(r)]
    /\ UNCHANGED << envVars, proxyVars, activityVars, clockVars, auditVars, req, startedAt, opsDone, cache, stats >>
ResumeCanAccessResource(r) ==
    /\ Resumes(r, "canAccessResource")
    /\ Deliver(r)
    /\ IF Verified(r).kind # "user"
       THEN Finish(r, "returned", [allowed |-> FALSE, reason |-> "Not authenticated",
                                   user |-> NullResult])
       ELSE IF AdminBypass(Verified(r))
            THEN Finish(r, "returned", [allowed |-> TRUE, reason |-> Absent,
                                        user |-> Verified(r)])
            ELSE op' = [op EXCEPT ![r].pc = "resClient", ![r].ret.user = Verified(r)]
    /\ UNCHANGED << envVars, proxyVars, activityVars, clockVars, auditVars, req, startedAt, opsDone, cache, stats >>

\* const supabase = await createClient()
ResCreateClient(r) ==
    /\ op[r].pc = "resClient"
    /\ \E outcome \in {"ok", "throw"} :
         IF outcome = "throw" THEN Finish(r, "threw", op[r].ret)
         ELSE op' = [op EXCEPT ![r].pc = "resLookup"]
    /\ UNCHANGED << envVars, proxyVars, activityVars, clockVars, auditVars, req, startedAt, opsDone, cache, stats,
                    returned >>

\* the ownership lookup and the decision
ResLookup(r) ==
    /\ op[r].pc = "resLookup"
    /\ \E outcome \in CollabOutcomes :
         IF outcome = "throw"
         THEN op' = [op EXCEPT ![r].pc = "idle", ![r].outcome = "threw",
                               ![r].lookups = @ + 1, ![r].lookup = outcome]
         ELSE op' = [op EXCEPT
                  ![r].pc = "idle", ![r].outcome = "returned", ![r].lookups = @ + 1,
                  ![r].lookup = outcome,
                  ![r].row = ResourceLookup(resources, op[r].resId, outcome),
                  ![r].ret = OwnershipDecision(op[r].ret.user,
                                 ResourceLookup(resources, op[r].resId, outcome),
                                 op[r].act)]
    /\ UNCHANGED << envVars, proxyVars, activityVars, clockVars, auditVars, req, startedAt, opsDone, cache, stats,
                    returned >>

\* --------------------------------------------------- direct audit calls
\* calls the callers of the process-wide logger and tracker have made in all
CallsMade == opsDone["rA"] + opsDone["rB"]

\* what callers of auditLog pass: one non-critical action per method, and a
\* critical one where the method is used for such actions
NoMetadata == Metadata(Absent, Absent, Absent, Absent)
UserActionInputs == {"auth_login"}
DataModificationInputs == {"data_delete"}
AdminActionInputs == {"admin_role_change"}
SecurityEventInputs == {"security_suspicious", "security_rate_limit"}

\* rows of audit_logs that came out of the buffer
NonCriticalRows(db) == Cardinality({i \in 1..Len(db) : db[i].severity # "critical"})

\* some writeToDatabase call has not resolved yet
WritesInFlight ==
    \/ Len(timerWrites) > 0
    \/ \E r \in Requests : op[r].pc \in {"logWrite", "auditWrite"}

\* headers() is available to a caller inside a request scope (rA) and throws
\* for one outside (rB, a background job)
InRequestScope(r) == r = "rA"

\* a caller invokes a public method of auditLog; the method suspends at
\* `await getRequestContext()'
AuditCall(r, name, action, userId) ==
    /\ req[r] \in {"new", "open"}
    /\ op[r].pc = "idle"
    /\ CallsMade < opLimit
    /\ req' = [req EXCEPT ![r] = "open"]
    /\ opsDone' = [opsDone EXCEPT ![r] = @ + 1]
    /\ op' = [op EXCEPT ![r] =
                [IdleOp EXCEPT !.name = name, !.action = action, !.userId = userId,
                               !.pc = "logCtx", !.outcome = "running",
                               !.snap = [buf |-> Len(buffer),
                                         rows |-> NonCriticalRows(auditDb),
                                         quiet |-> ~WritesInFlight]]]
    /\ UNCHANGED << envVars, proxyVars, activityVars, clockVars, auditVars, startedAt, cache, stats, returned >>

CallUserAction(r) ==
    \E a \in UserActionInputs : AuditCall(r, "userAction", a, "u1")
CallDataModification(r) ==
    \E a \in DataModificationInputs : AuditCall(r, "dataModification", a, "u1")
CallAdminAction(r) ==
    \E a \in AdminActionInputs : AuditCall(r, "adminAction", a, "u2")
CallSecurityEvent(r) ==
    \E a \in SecurityEventInputs : AuditCall(r, "securityEvent", a, NoId)

\* the AuditLogEntry the called method builds
EntryOf(o, ctx, nowMs) ==
    CASE o.name = "userAction" ->
           UserActionEntry(o.action, o.userId, NoMetadata, TRUE, Absent, ctx, nowMs)
      [] o.name = "dataModification" ->
           DataModificationEntry(o.action, o.userId, "restaurants", "res1", NoMetadata,
                                 TRUE, ctx, nowMs)
      [] o.name = "adminAction" ->
           AdminActionEntry(o.action, o.userId, "u1", NoMetadata, ctx, nowMs)
      [] OTHER ->
           SecurityEventEntry(o.action, NoMetadata, o.userId, ctx, nowMs)

\* getRequestContext() resolves, the entry is built, log(entry) runs up to its
\* await (the write of a critical entry or of a full buffer) or to its end
LogCtx(r) ==
    /\ op[r].pc = "logCtx"
    /\ \E headersOk \in {InRequestScope(r)} :
         LET entry == EntryOf(op[r], RequestContext(headersOk), now)
             step == LogStep(buffer, flushTimeout, entry)
         IN /\ buffer' = step.buffer
            /\ flushTimeout' = step.timer
            /\ timers' = TimerUpdate(timers, flushTimeout, step, now)
            /\ ledger' = [ledger EXCEPT !.created = @ + 1]
            /\ op' = [op EXCEPT
                        ![r].emitted = Append(@, entry),
                        ![r].batch = step.batch,
                        ![r].pc = IF step.batch = <<>> THEN "idle" ELSE "logWrite",
                        ![r].outcome = IF step.batch = <<>> THEN "returned" ELSE "running"]
    /\ UNCHANGED << envVars, proxyVars, activityVars, clockVars, timerWrites, auditDb, req, startedAt, opsDone,
                    cache, stats, returned >>

\* await this.writeToDatabase(entries) resolves and the method returns
LogWrite(r) ==
    /\ op[r].pc = "logWrite"
    /\ \E outcome \in CollabOutcomes :
         /\ auditDb' = WriteResult(auditDb, op[r].batch, outcome)
         /\ ledger' = Dropped(ledger, op[r].batch, outcome)
         /\ op' = [op EXCEPT ![r].pc = "idle",
                               ![r].written = outcome,
                               ![r].rowsAtEnd = NonCriticalRows(auditDb),
                               ![r].outcome = IF WriteRaises(outcome) THEN "threw"
                                              ELSE "returned"]
    /\ UNCHANGED << envVars, proxyVars, activityVars, clockVars, buffer, flushTimeout, timerWrites, timers, req,
                    startedAt, opsDone, cache, stats, returned >>

\* a caller invokes auditLog.flush(): the part up to the write, or all of it
\* when the buffer is empty
CallFlush(r) ==
    /\ req[r] \in {"new", "open"}
    /\ op[r].pc = "idle"
    /\ CallsMade < opLimit
    /\ req' = [req EXCEPT ![r] = "open"]
    /\ opsDone' = [opsDone EXCEPT ![r] = @ + 1]
    /\ LET step == FlushStep(buffer) IN
         /\ buffer' = step.buffer
         /\ flushTimeout' = step.timer
         /\ timers' = TimerUpdate(timers, flushTimeout, step, now)
         /\ op' = [op EXCEPT ![r] =
                     [IdleOp EXCEPT !.name = "flush", !.batch = step.batch,
                                    !.pc = IF step.batch = <<>> THEN "idle" ELSE "logWrite",
                                    !.outcome = IF step.batch = <<>> THEN "returned"
                                                ELSE "running",
                                    !.snap = [buf |-> Len(buffer),
                                              rows |-> NonCriticalRows(auditDb),
                                              quiet |-> ~WritesInFlight]]]
    /\ UNCHANGED << envVars, proxyVars, activityVars, clockVars, timerWrites, auditDb, ledger, startedAt,
                    cache, stats, returned >>

\* ------------------------------------------------- audit_logs row security
\* RLS is enabled on audit_logs with these policies: admins read, every
\* authenticated user inserts; there is no UPDATE and no DELETE policy
AuditPolicies ==
    { [cmd |-> "SELECT", to |-> "authenticated", using |-> "admin"],
      [cmd |-> "INSERT", to |-> "authenticated", using |-> "true"] }

\* row security for a command of the authenticated user uid: some policy for
\* the command passes (EXISTS profiles row with id = auth.uid() and role admin)
RlsAllows(cmd, uid, table) ==
    \E pol \in AuditPolicies :
        /\ pol.cmd = cmd
        /\ pol.to = "authenticated"
        /\ pol.using = "admin" => table[uid] = "admin"

\* from("audit_logs").update({ action: "MODIFIED" }).eq("id", id) by uid
UpdateRows(db, id, uid, table) ==
    [i \in 1..Len(db) |->
        IF i = id /\ RlsAllows("UPDATE", uid, table)
        THEN [db[i] EXCEPT !.action = "MODIFIED"] ELSE db[i]]

\* from("audit_logs").delete().eq("id", id) by uid
DeleteRows(db, id, uid, table) ==
    IF id \in 1..Len(db) /\ RlsAllows("DELETE", uid, table)
    THEN SubSeq(db, 1, id - 1) \o SubSeq(db, id + 1, Len(db)) ELSE db

\* timestamp < NOW() - INTERVAL '90 days'
RETENTION_DAYS == 90
OlderThanRetention(timestamp, nowMs) ==
    LET cutoff == [ToISOString(nowMs) EXCEPT !.date = @ - RETENTION_DAYS] IN
    \/ timestamp.date < cutoff.date
    \/ timestamp.date = cutoff.date /\ timestamp.time < cutoff.time

\* delete_old_audit_logs() is SECURITY DEFINER: its DELETE runs as the owner
\* of the function, whose rows no policy of the caller filters
DeleteOldAuditLogs(db, nowMs) ==
    LET Kept(row) == ~OlderThanRetention(row.timestamp, nowMs) IN SelectSeq(db, Kept)

\* EXECUTE on a new function is granted to PUBLIC and the migration revokes
\* nothing: every role may call it
ExecuteGrantedTo == {"PUBLIC"}
MayExecute(role) == "PUBLIC" \in ExecuteGrantedTo \/ role \in ExecuteGrantedTo

\* rows a command or the retention function removed from the table
Purged(ledg, db, rows) == [ledg EXCEPT !.purged = @ + (Len(db) - Len(rows))]

\* a signed-in user's client sends an update or a delete for the oldest row,
\* or calls a function
RowCommand(r, name, rows) ==
    /\ req[r] \in {"new", "open"}
    /\ op[r].pc = "idle"
    /\ CallsMade < opLimit
    /\ req' = [req EXCEPT ![r] = "open"]
    /\ opsDone' = [opsDone EXCEPT ![r] = @ + 1]
    /\ auditDb' = rows
    /\ ledger' = Purged(ledger, auditDb, rows)
    /\ op' = [op EXCEPT ![r] =
                [IdleOp EXCEPT !.name = name, !.userId = "u1", !.outcome = "returned",
                               !.snap = [buf |-> Len(buffer), rows |-> Len(auditDb),
                                         quiet |-> ~WritesInFlight]]]
    /\ UNCHANGED << envVars, proxyVars, activityVars, clockVars, buffer, flushTimeout, timerWrites,
                    timers, startedAt, cache, stats, returned >>

UserUpdatesRow(r) == RowCommand(r, "updateRow", UpdateRows(auditDb, 1, "u1", profiles))
UserDeletesRow(r) == RowCommand(r, "deleteRow", DeleteRows(auditDb, 1, "u1", profiles))
\* supabase.rpc("delete_old_audit_logs") by the signed-in user
UserCallsRetention(r) ==
    RowCommand(r, "deleteOldAuditLogs",
               IF MayExecute("authenticated") THEN DeleteOldAuditLogs(auditDb, now)
               ELSE auditDb)

\* the scheduled cleanup (cron.schedule(..., 'SELECT delete_old_audit_logs();'))
RetentionJob ==
    /\ auditDb' = DeleteOldAuditLogs(auditDb, now)
    /\ ledger' = Purged(ledger, auditDb, auditDb')
    /\ UNCHANGED << envVars, proxyVars, activityVars, clockVars, buffer, flushTimeout, timerWrites,
                    timers, req, startedAt, opsDone, cache, stats, returned, op >>

\* ---------------------------------------------------------- Activity Tracker
ActivityCapacity == 100              \* activities.length >= 100
WindowMs == 300000                   \* 5 * 60 * 1000
RapidThreshold == 50                 \* last5Minutes.length > 50
FailedThreshold == 5                 \* failedAttempts.length > 5

\* the action strings callers pass, as the characters includes() scans
ActionText ==
    [ login |-> << "l", "o", "g", "i", "n" >>,
      login_failed |-> << "l", "o", "g", "i", "n", "_", "f", "a", "i", "l", "e", "d" >>,
      Failed_login |-> << "F", "a", "i", "l", "e", "d", "_", "l", "o", "g", "i", "n" >> ]
FailedText == << "f", "a", "i", "l", "e", "d" >>

\* String.prototype.includes: the pattern occurs at some offset
StringIncludes(text, pattern) ==
    \E i \in 0..(Len(text) - Len(pattern)) :
        SubSeq(text, i + 1, i + Len(pattern)) = pattern

ActivityContext(userId, action, timestamp) ==
    [userId |-> userId, action |-> action, timestamp |-> timestamp]

\* a window that never evicts
EvictNever(activities) == activities
\* if (activities.length >= 100) activities.shift()
Evict(activities) ==
    IF Len(activities) >= ActivityCapacity THEN Tail(activities) ELSE activities

\* activities.filter(a => Date.now() - a.timestamp.getTime() < 5 * 60 * 1000)
Last5Minutes(activities, nowMs) ==
    LET Recent(a) == nowMs - a.timestamp < WindowMs IN SelectSeq(activities, Recent)

\* last5Minutes.filter(a => a.action.includes("failed"))
FailedAttempts(last5) ==
    LET Failed(a) == StringIncludes(ActionText[a.action], FailedText) IN SelectSeq(last5, Failed)

\* the rapid-rate rule firing one entry early
RapidRateFrom50(last5) == Len(last5) >= RapidThreshold
\* if (last5Minutes.length > 50)
RapidRate(last5) == Len(last5) > RapidThreshold

\* the failed-attempts rule firing one entry early
ManyFailuresFrom5(last5) == Len(FailedAttempts(last5)) >= FailedThreshold
\* if (failedAttempts.length > 5)
ManyFailures(last5) == Len(FailedAttempts(last5)) > FailedThreshold

\* the metadata objects detectAnomalies passes to securityEvent
RapidMetadata(last5) ==
    [reason |-> "Rapid request rate", requestCount |-> Len(last5),
     timeWindow |-> "5 minutes"]
FailedMetadata(last5) ==
    [reason |-> "Multiple failed attempts", failedCount |-> Len(FailedAttempts(last5)),
     timeWindow |-> "5 minutes"]

\* what callers pass: identity, action, and the age of context.timestamp at
\* the call (just created, or exactly as old as the window is long)
TrackInputs ==
    { << "u1", "login_failed", 0 >>, << "u1", "Failed_login", 0 >>,
      << "u1", "login_failed", WindowMs >>, << "u2", "login_failed", 0 >> }

\* trackActivity(context) up to its first await: the window is updated, the
\* recent entries are filtered, and the first rule that fires calls
\* securityEvent, which suspends at getRequestContext
TrackActivity(r) ==
    /\ req[r] \in {"new", "open"}
    /\ op[r].pc = "idle"
    /\ CallsMade < opLimit
    /\ req' = [req EXCEPT ![r] = "open"]
    /\ opsDone' = [opsDone EXCEPT ![r] = @ + 1]
    /\ \E in \in TrackInputs :
         LET u == in[1]
             a == in[2]
             context == ActivityContext(u, a, now - in[3])
         IN \E activities \in {Append(Evict(recentActivity[u]), context)} :
            \E last5 \in {Last5Minutes(activities, now)} :
            \E rapid \in {RapidRate(last5)}, failed \in {ManyFailures(last5)} :
            /\ recentActivity' = [recentActivity EXCEPT ![u] = activities]
            /\ arrivals' = [arrivals EXCEPT ![u] = Append(@, context)]
            /\ op' = [op EXCEPT ![r] =
                        [IdleOp EXCEPT
                           !.name = "trackActivity", !.userId = u, !.action = a,
                           !.arrival = Len(arrivals[u]) + 1, !.last5Minutes = last5,
                           !.pc = IF rapid THEN "rapidCtx"
                                  ELSE IF failed THEN "failedCtx"
                                  ELSE "idle",
                           !.outcome = IF rapid \/ failed THEN "running"
                                       ELSE "returned"]]
    /\ UNCHANGED << envVars, proxyVars, clockVars, auditVars, startedAt, cache, stats, returned >>

\* securityEvent of a rule: getRequestContext resolves, the entry is built
\* and log(entry) runs up to the await of its write
AnomalyCtx(r) ==
    /\ op[r].pc \in {"rapidCtx", "failedCtx"}
    /\ \E headersOk \in {InRequestScope(r)} :
         LET entry == SecurityEventEntry("security_suspicious",
                          IF op[r].pc = "rapidCtx" THEN RapidMetadata(op[r].last5Minutes)
                          ELSE FailedMetadata(op[r].last5Minutes),
                          op[r].userId, RequestContext(headersOk), now)
             step == LogStep(buffer, flushTimeout, entry)
         IN /\ buffer' = step.buffer
            /\ flushTimeout' = step.timer
            /\ timers' = TimerUpdate(timers, flushTimeout, step, now)
            /\ ledger' = [ledger EXCEPT !.created = @ + 1]
            /\ op' = [op EXCEPT
                        ![r].emitted = Append(@, entry),
                        ![r].batch = step.batch,
                        ![r].pc = IF op[r].pc = "rapidCtx" THEN "rapidWrite"
                                  ELSE "failedWrite"]
    /\ UNCHANGED << envVars, proxyVars, activityVars, clockVars, timerWrites, auditDb, req, startedAt,
                    opsDone, cache, stats, returned >>

\* a detectAnomalies that stores its filtered copy back as the window once
\* the write has resolved
AnomalyWriteStoresCopy(r) ==
    /\ op[r].pc \in {"rapidWrite", "failedWrite"}
    /\ \E outcome \in CollabOutcomes :
         /\ auditDb' = WriteResult(auditDb, op[r].batch, outcome)
         /\ ledger' = Dropped(ledger, op[r].batch, outcome)
         /\ IF op[r].pc = "rapidWrite" /\ ManyFailures(op[r].last5Minutes)
            THEN op' = [op EXCEPT ![r].pc = "failedCtx"]
            ELSE op' = [op EXCEPT ![r].pc = "idle", ![r].outcome = "returned"]
    /\ recentActivity' = [recentActivity EXCEPT ![op[r].userId] = op[r].last5Minutes]
    /\ UNCHANGED << envVars, proxyVars, arrivals, clockVars, buffer, flushTimeout, timerWrites,
                    timers, req, startedAt, opsDone, cache, stats, returned >>
\* the write of a rule's entry resolves; after the rapid-rate rule the
\* failed-attempts rule is evaluated on the same filtered copy
AnomalyWrite(r) ==
    /\ op[r].pc \in {"rapidWrite", "failedWrite"}
    /\ \E outcome \in CollabOutcomes :
         /\ auditDb' = WriteResult(auditDb, op[r].batch, outcome)
         /\ ledger' = Dropped(ledger, op[r].batch, outcome)
         /\ IF WriteRaises(outcome)
            THEN op' = [op EXCEPT ![r].pc = "idle", ![r].outcome = "threw"]
            ELSE IF op[r].pc = "rapidWrite" /\ ManyFailures(op[r].last5Minutes)
                 THEN op' = [op EXCEPT ![r].pc = "failedCtx"]
                 ELSE op' = [op EXCEPT ![r].pc = "idle", ![r].outcome = "returned"]
    /\ UNCHANGED << envVars, proxyVars, activityVars, clockVars, buffer, flushTimeout, timerWrites,
                    timers, req, startedAt, opsDone, cache, stats, returned >>

\* ------------------------------------------------------------- flush timer
\* a timer callback whose flush leaves the handle set
TimerFireKeepsHandle ==
    /\ flushTimeout
    /\ LET step == FlushStep(buffer) IN
         /\ flushTimeout' = flushTimeout
         /\ timers' = [timers EXCEPT !.fired = @ + 1, !.due = -1]
         /\ IF Len(buffer) = 0
            THEN UNCHANGED << buffer, timerWrites >>
            ELSE /\ buffer' = step.buffer
                 /\ timerWrites' = Append(timerWrites, step.batch)
    /\ UNCHANGED << envVars, proxyVars, activityVars, clockVars, auditDb, ledger, req, startedAt, opsDone,
                    cache, stats, returned, op >>
\* setTimeout(() => this.flush(), FLUSH_INTERVAL) fires
TimerFire ==
    /\ flushTimeout
    /\ LET step == FlushStep(buffer) IN
         /\ flushTimeout' = step.timer
         /\ timers' = [timers EXCEPT !.fired = @ + 1, !.due = -1]
         /\ IF Len(buffer) = 0
            THEN UNCHANGED << buffer, timerWrites >>
            ELSE /\ buffer' = step.buffer
                 /\ timerWrites' = Append(timerWrites, step.batch)
    /\ UNCHANGED << envVars, proxyVars, activityVars, clockVars, auditDb, ledger, req, startedAt, opsDone,
                    cache, stats, returned, op >>

\* the sequence without its i-th element
RemoveAt(seq, i) == SubSeq(seq, 1, i - 1) \o SubSeq(seq, i + 1, Len(seq))

\* the write started by a timer flush completes; the writes of two timer
\* flushes in flight resolve in either order
TimerWriteDone ==
    /\ \E i \in 1..Len(timerWrites), outcome \in CollabOutcomes :
         /\ auditDb' = WriteResult(auditDb, timerWrites[i], outcome)
         /\ ledger' = Dropped(ledger, timerWrites[i], outcome)
         /\ timers' = [timers EXCEPT !.rejected = @ \/ WriteRaises(outcome),
                                      !.writeThrew = @ \/ outcome = "throw"]
         /\ timerWrites' = RemoveAt(timerWrites, i)
    /\ UNCHANGED << envVars, proxyVars, activityVars, clockVars, buffer, flushTimeout, req, startedAt, opsDone,
                    cache, stats, returned, op >>

\* ------------------------------------------------------- Data Access Layer
\* getCurrentUser is wrapped in cache() like verifySession; where a handler
\* calls the DAL, `cache' holds its memo entry for getCurrentUser.

\* the email column of the profiles rows (u2's is NULL)
ProfileEmail == [u \in Users |-> IF u = "u1" THEN "u1@example.com" ELSE NoId]

\* the UserProfile getCurrentUser returns: without a profile row the basic
\* info (user.email ?? "", role "user"); with one, the row itself, its email
\* and role as stored (a NULL column is null)
CurrentUser(u, persisted) ==
    IF persisted = NoRow
    THEN [NullResult EXCEPT !.kind = "user", !.id = u,
                            !.email = IF EmailOf[u] = Absent THEN "" ELSE EmailOf[u],
                            !.role = "user"]
    ELSE [NullResult EXCEPT !.kind = "user", !.id = u,
                            !.email = ProfileEmail[u],
                            !.role = IF persisted = NullRole THEN NoId ELSE persisted]

\* the memoized promise rejects with what the collaborator threw
Reject(s, err) ==
    cache' = [cache EXCEPT ![s].pc = "settled", ![s].val = ThrewResult, ![s].thrown = err]

\* const supabase = await createClient()
GcuCreateClient(s) ==
    /\ cache[s].pc = "gcuClient"
    /\ \E outcome \in {"ok", "throw"} :
         IF outcome = "throw" THEN \E err \in ThrownBy("createClient") : Reject(s, err)
         ELSE cache' = [cache EXCEPT ![s].pc = "gcuGetUser"]
    /\ UNCHANGED << envVars, proxyVars, activityVars, clockVars, auditVars, req, startedAt, opsDone, stats,
                    returned, op >>

\* await supabase.auth.getUser(); if (authError || !user) return null
GcuGetUser(s) ==
    /\ cache[s].pc = "gcuGetUser"
    /\ \E outcome \in CollabOutcomes :
         IF outcome = "throw" THEN \E err \in ThrownBy("getUser") : Reject(s, err)
         ELSE LET res == GetUserResult(cred[cache[s].owner], outcome) IN
              IF AuthRejected(res) THEN Settle(s, NullResult)
              ELSE cache' = [cache EXCEPT ![s].pc = "gcuProfile", ![s].user = res.user]
    /\ UNCHANGED << envVars, proxyVars, activityVars, clockVars, auditVars, req, startedAt, opsDone, stats,
                    returned, op >>

\* the profile lookup and the returned UserProfile
GcuProfile(s) ==
    /\ cache[s].pc = "gcuProfile"
    /\ \E outcome \in CollabOutcomes :
         IF outcome = "throw"
         THEN \E err \in ThrownBy("profiles.select") :
                cache' = [cache EXCEPT ![s].pc = "settled", ![s].val = ThrewResult,
                                       ![s].lookup = outcome, ![s].thrown = err]
         ELSE cache' = [cache EXCEPT
                  ![s].pc = "settled", ![s].lookup = outcome,
                  ![s].val = CurrentUser(cache[s].user,
                                         ProfileLookup(profiles, cache[s].user, outcome))]
    /\ UNCHANGED << envVars, proxyVars, activityVars, clockVars, auditVars, req, startedAt, opsDone, stats,
                    returned, op >>

\* requireRole(allowedRoles): the message of the Error it throws, or "ok"
RequireRole(user, allowedRoles) ==
    IF user.kind # "user" THEN "Authentication required"
    ELSE IF user.role \notin allowedRoles THEN "Insufficient permissions"
    ELSE "ok"

\* requireAdmin() == requireRole(["admin"])
RequireAdmin(user) == RequireRole(user, {"admin"})

\* validateInput(uuid, userId): z.string().uuid() accepts the ids of users
ValidUuid(id) == id \in Users

\* the ZodError schema.parse throws: an Error whose message is the JSON text
\* of its issue list, JSON.stringify(issues, replacer, 2)
UuidIssue ==
    [origin |-> "string", code |-> "invalid_format", format |-> "uuid",
     pattern |-> "/^([0-9a-fA-F]{8}-[0-9a-fA-F]{4}-[1-8][0-9a-fA-F]{3}-[89abAB][0-9a-fA-F]{3}-[0-9a-fA-F]{12}|00000000-0000-0000-0000-000000000000)$/",
     path |-> "[]", message |-> "Invalid ID format"]
IssuesJson(issue) ==
    "[\n  {\n    \"origin\": \"" \o issue.origin
        \o "\",\n    \"code\": \"" \o issue.code
        \o "\",\n    \"format\": \"" \o issue.format
        \o "\",\n    \"pattern\": \"" \o issue.pattern
        \o "\",\n    \"path\": " \o issue.path
        \o ",\n    \"message\": \"" \o issue.message \o "\"\n  }\n]"
ZodError(issue) == [isError |-> TRUE, message |-> IssuesJson(issue)]

\* const message = err instanceof Error ? err.message : "An error occurred"
CatchMessage(err) == IF err.isError THEN err.message ELSE "An error occurred"

\* if (admin.id === userId && newRole !== "admin")
SelfDemotion(adminId, userId, newRole) == adminId = userId /\ newRole # "admin"

\* what callers pass as userId and newRole
RoleTargets == Users \cup {"not-a-uuid"}

\* updateUserRole(userId, newRole) up to `await getCurrentUser()'
CallUpdateUserRole(r) ==
    /\ req[r] \in {"new", "open"}
    /\ op[r].pc = "idle"
    /\ opsDone[r] < opLimit
    /\ req' = [req EXCEPT ![r] = "open"]
    /\ opsDone' = [opsDone EXCEPT ![r] = @ + 1]
    /\ \E userId \in RoleTargets, newRole \in Roles :
         op' = [op EXCEPT ![r] = [IdleOp EXCEPT !.name = "updateUserRole",
                                     !.userId = userId, !.act = newRole,
                                     !.pc = "dalUser", !.outcome = "running"]]
    /\ IF Memoized(cache[CacheScope(r)], rendering[r])
       THEN UNCHANGED cache
       ELSE cache' = [cache EXCEPT ![CacheScope(r)] =
                         [UnsetCache EXCEPT !.pc = "gcuClient", !.owner = r]]
    /\ UNCHANGED << envVars, proxyVars, activityVars, clockVars, auditVars, startedAt, stats, returned >>

\* the function returns { data: null, error }: ret.reason carries the error
DalFails(r, error) ==
    op' = [op EXCEPT ![r].pc = "idle", ![r].outcome = "returned",
                     ![r].ret = [NoRet EXCEPT !.reason = error]]

\* requireAdmin resolves or throws into the catch; then validateInput and the
\* self-demotion guard, up to `await createClient()'
ResumeUpdateUserRole(r) ==
    /\ op[r].pc = "dalUser"
    /\ cache[CacheScope(r)].pc = "settled"
    /\ LET admin == Verified(r) IN
         IF admin.kind = "threw"
         THEN DalFails(r, CatchMessage(cache[CacheScope(r)].thrown))
         ELSE IF RequireAdmin(admin) # "ok" THEN DalFails(r, RequireAdmin(admin))
         ELSE IF ~ValidUuid(op[r].userId)
              THEN DalFails(r, CatchMessage(ZodError(UuidIssue)))
         ELSE IF SelfDemotion(admin.id, op[r].userId, op[r].act)
              THEN DalFails(r, "Cannot change your own admin role")
              ELSE op' = [op EXCEPT ![r].pc = "roleClient", ![r].ret.user = admin]
    /\ returned' = [returned EXCEPT ![r] = @ \cup {Verified(r)}]
    /\ UNCHANGED << envVars, proxyVars, activityVars, clockVars, auditVars, req, startedAt, opsDone, cache,
                    stats >>

\* const supabase = await createClient()
RoleCreateClient(r) ==
    /\ op[r].pc = "roleClient"
    /\ \E outcome \in {"ok", "throw"} :
         IF outcome = "throw"
         THEN \E err \in ThrownBy("createClient") : DalFails(r, CatchMessage(err))
         ELSE op' = [op EXCEPT ![r].pc = "roleUpdate"]
    /\ UNCHANGED << envVars, proxyVars, activityVars, clockVars, auditVars, req, startedAt, opsDone, cache,
                    stats, returned >>

\* profiles.update({ role: newRole }).eq("id", userId).select(...).single():
\* without a row for userId nothing is written and single() gives an error
RoleUpdate(r) ==
    /\ op[r].pc = "roleUpdate"
    /\ \E outcome \in CollabOutcomes :
         IF outcome = "ok" /\ profiles[op[r].userId] # NoRow
         THEN /\ profiles' = [profiles EXCEPT ![op[r].userId] = op[r].act]
              /\ roleWrites' = roleWrites + 1
              /\ op' = [op EXCEPT ![r].pc = "idle", ![r].outcome = "returned",
                                  ![r].written = outcome, ![r].ret.allowed = TRUE,
                                  ![r].row = op[r].act]
         ELSE /\ UNCHANGED << profiles, roleWrites >>
              /\ \E err \in ThrownBy("profiles.update") :
                   op' = [op EXCEPT ![r].pc = "idle", ![r].outcome = "returned",
                                    ![r].written = outcome,
                                    ![r].ret.reason =
                                        IF outcome = "throw" THEN CatchMessage(err)
                                        ELSE "Failed to update user role"]
    /\ UNCHANGED << proxyVars, resources, cred, sess, opLimit, rendering, activityVars, clockVars, auditVars, req,
                    startedAt, opsDone, cache, stats, returned >>

\* ------------------------------------------------------------- environment
Tick ==
    /\ ticks < MaxTicks
    /\ ticks' = ticks + 1
    /\ now' = now + TickMs
    /\ UNCHANGED << envVars, proxyVars, activityVars, auditVars, req, startedAt, opsDone, cache, stats,
                    returned, op >>

\* profiles.update({ role: newRole }).eq("id", userId): an update matches
\* only an existing row, it creates none
RoleWrite ==
    /\ roleWrites < MaxRoleWrites
    /\ \E u \in Users, newRole \in Roles :
         /\ profiles[u] # NoRow
         /\ profiles[u] # newRole
         /\ profiles' = [profiles EXCEPT ![u] = newRole]
    /\ roleWrites' = roleWrites + 1
    /\ UNCHANGED << proxyVars, resources, cred, sess, opLimit, rendering, activityVars, clockVars, auditVars, req, startedAt, opsDone,
                    cache, stats, returned, op >>

\* rows of the resource table changed since the first state
OwnerWrites == Cardinality({id \in ResourceIds : resources[id] # ResourceTable[id]})

\* another request transfers, deletes or creates a resource row
ResourceChange ==
    /\ OwnerWrites < MaxOwnerWrites
    /\ \E id \in ResourceIds, owner \in Users \cup {NoRow} :
         /\ resources[id] = ResourceTable[id]
         /\ owner # resources[id]
         /\ resources' = [resources EXCEPT ![id] = owner]
    /\ UNCHANGED << proxyVars, profiles, roleWrites, cred, sess, opLimit, rendering, activityVars, clockVars,
                    auditVars, req, startedAt, opsDone, cache, stats, returned, op >>

\* ------------------------------------------------------------------ proxy
\* the security middleware: rate limiting of /api/ routes, CSRF check
RATE_LIMIT_WINDOW == 60
RATE_LIMIT_MAX_REQUESTS == 100

MaxProxyRequests == 3   \* requests the proxy handles
MaxProxyTicks == 3      \* clock steps between them
ProxyTickMs == 30000    \* milliseconds per such step

\* header values and paths, as the characters split(), startsWith() and
\* includes() scan
LocalIp == << "1", "2", "7", ".", "0", ".", "0", ".", "1" >>
FirstIp == << "1", ".", "1", ".", "1", ".", "1" >>
SecondIp == << "2", ".", "2", ".", "2", ".", "2" >>
\* request.headers.get("x-forwarded-for"): null, or the header's value
ForwardedFor ==
    [ none |-> [present |-> FALSE, text |-> << >>],
      first |-> [present |-> TRUE, text |-> FirstIp],
      chain |-> [present |-> TRUE, text |-> FirstIp \o << "," >> \o SecondIp],
      second |-> [present |-> TRUE, text |-> SecondIp] ]
ForwardedForInputs == {"none", "first", "chain", "second"}
PathText ==
    [ apiUsers |-> << "/", "a", "p", "i", "/", "u", "s", "e", "r", "s" >>,
      apiRoot |-> << "/", "a", "p", "i" >>,
      login |-> << "/", "l", "o", "g", "i", "n" >> ]
PathInputs == {"apiUsers", "apiRoot", "login"}
ApiPrefix == << "/", "a", "p", "i", "/" >>
\* request.headers.get("origin") and ("host"); << >> when the header is absent
HostText == << "a", ".", "i", "o" >>
OriginInputs ==
    { << >>, << "h", "t", "t", "p", "s", ":", "/", "/", "a", ".", "i", "o" >>,
      << "h", "t", "t", "p", "s", ":", "/", "/", "b", ".", "i", "o" >> }
MethodInputs == {"GET", "POST"}
MutationMethods == {"POST", "PUT", "DELETE", "PATCH"}

\* text.split(",")[0]
SplitFirst(text) ==
    LET commas == {i \in 1..Len(text) : text[i] = ","} IN
    IF commas = {} THEN text
    ELSE SubSeq(text, 1, (CHOOSE i \in commas : \A j \in commas : i <= j) - 1)

\* request.headers.get("x-forwarded-for")?.split(",")[0] ?? "127.0.0.1"
ClientIp(header) == IF header.present THEN SplitFirst(header.text) ELSE LocalIp
ProxyIps == {ClientIp(ForwardedFor[h]) : h \in ForwardedForInputs}

\* String.prototype.startsWith
StartsWith(text, prefix) ==
    Len(text) >= Len(prefix) /\ SubSeq(text, 1, Len(prefix)) = prefix

\* Number.prototype.toString, for a non-negative integer
DecimalDigit == << "0", "1", "2", "3", "4", "5", "6", "7", "8", "9" >>
RECURSIVE NumberToString(_)
NumberToString(n) ==
    IF n < 10 THEN DecimalDigit[n + 1]
    ELSE NumberToString(n \div 10) \o DecimalDigit[(n % 10) + 1]

\* Math.floor(Date.now() / 1000)
CurrentTime(nowMs) == nowMs \div 1000

\* ipRequestCounts.get(ip) of an address the map has no entry for
NoIpData == [present |-> FALSE, count |-> 0, resetTime |-> 0]
\* if (!ipData || currentTime > ipData.resetTime)
WindowExpired(ipData, currentTime) == ~ipData.present \/ currentTime > ipData.resetTime

\* the limiter answering one request late
RateLimitedFrom102(count) == count > RATE_LIMIT_MAX_REQUESTS + 1
\* if (ipData.count > RATE_LIMIT_MAX_REQUESTS)
RateLimited(count) == count > RATE_LIMIT_MAX_REQUESTS

\* step 1 of the proxy: the map after the request, and whether it is refused
RateLimit(counts, ip, path, currentTime) ==
    IF ~StartsWith(path, ApiPrefix) THEN [counts |-> counts, limited |-> FALSE]
    ELSE IF WindowExpired(counts[ip], currentTime)
    THEN [counts |-> [counts EXCEPT ![ip] = [present |-> TRUE, count |-> 1,
                                             resetTime |-> currentTime + RATE_LIMIT_WINDOW]],
          limited |-> FALSE]
    ELSE [counts |-> [counts EXCEPT ![ip].count = @ + 1],
          limited |-> RateLimited(counts[ip].count + 1)]

\* step 6: if (origin && host && !origin.includes(host)) for a mutation
CsrfBlocked(method, origin, host) ==
    /\ method \in MutationMethods
    /\ origin # << >> /\ host # << >>
    /\ ~StringIncludes(origin, host)

\* the three responses of the proxy
TooManyRequests ==
    [status |-> 429, error |-> "Too Many Requests", contentType |-> "application/json",
     retryAfter |-> NumberToString(RATE_LIMIT_WINDOW), frameOptions |-> Absent]
InvalidOrigin ==
    [status |-> 403, error |-> "Invalid origin", contentType |-> "application/json",
     retryAfter |-> Absent, frameOptions |-> Absent]
\* NextResponse.next() with the security headers applied
NextResponse ==
    [status |-> 200, error |-> Absent, contentType |-> Absent, retryAfter |-> Absent,
     frameOptions |-> "DENY"]

NoExchange == [ip |-> << >>, path |-> "", at |-> 0, response |-> NextResponse]
NoProxyTraffic ==
    /\ ipRequestCounts = [ip \in ProxyIps |-> NoIpData]
    /\ passed = [ip \in ProxyIps |-> 0]
    /\ exchange = NoExchange
    /\ proxyDone = 0

\* export const proxy = async (request) => ...: the handler has no await
ProxyRequest ==
    /\ proxyDone < MaxProxyRequests
    /\ \E h \in ForwardedForInputs, p \in PathInputs, method \in MethodInputs,
          origin \in OriginInputs :
         LET ip == ClientIp(ForwardedFor[h])
             currentTime == CurrentTime(now)
             step == RateLimit(ipRequestCounts, ip, PathText[p], currentTime)
             response == IF step.limited THEN TooManyRequests
                         ELSE IF CsrfBlocked(method, origin, HostText) THEN InvalidOrigin
                         ELSE NextResponse
         IN /\ ipRequestCounts' = step.counts
            /\ passed' = IF step.counts = ipRequestCounts \/ step.limited THEN passed
                         ELSE IF step.counts[ip].count = 1
                         THEN [passed EXCEPT ![ip] = 1]
                         ELSE [passed EXCEPT ![ip] = @ + 1]
            /\ exchange' = [ip |-> ip, path |-> p, at |-> currentTime, response |-> response]
    /\ proxyDone' = proxyDone + 1
    /\ UNCHANGED << envVars, clockVars, auditVars, activityVars, req, startedAt, opsDone,
                    cache, stats, returned, op >>

\* time passes between two requests
ProxyTick ==
    /\ ticks < MaxProxyTicks
    /\ ticks' = ticks + 1
    /\ now' = now + ProxyTickMs
    /\ UNCHANGED << envVars, proxyVars, auditVars, activityVars, req, startedAt, opsDone,
                    cache, stats, returned, op >>

\* ------------------------------------------------------------ specification
\* (verifySession reads a row with a NULL role as it reads a missing row, so
\* the tables its callers start from leave that row out)
ProfileInputs ==
    {[u \in Users |-> IF u = "u1" THEN x ELSE "moderator"] : x \in PersistedRoles \ {NullRole}}

InitCommon ==
    /\ now = StartMs
    /\ ticks = 0
    /\ roleWrites = 0
    /\ resources = ResourceTable
    /\ startedAt = [r \in Requests |-> 0]
    /\ opsDone = [r \in Requests |-> 0]
    /\ cache = [s \in Requests |-> UnsetCache]
    /\ stats = [r \in Requests |-> ZeroStats]
    /\ returned = [r \in Requests |-> {}]
    /\ op = [r \in Requests |-> IdleOp]
    /\ timerWrites = <<>>

\* const recentActivity = new Map(): no identity has a window yet
NoActivityYet ==
    /\ recentActivity = [u \in Users |-> <<>>]
    /\ arrivals = [u \in Users |-> <<>>]

\* entries other requests of the process left in the buffer: none, or one
\* short of BUFFER_SIZE (the timer is armed whenever the buffer is not empty)
EarlierEntry ==
    SecurityEventEntry("security_rate_limit", Metadata("Too many requests", Absent,
                       Absent, Absent), NoId, RequestContext(TRUE), StartMs)
BufferInputs == {<<>>, [i \in 1..(BUFFER_SIZE - 1) |-> EarlierEntry]}
\* the timer those entries armed when the first of them was buffered
ArmedFor(buf) ==
    IF buf = <<>> THEN NoTimers
    ELSE [NoTimers EXCEPT !.set = 1, !.due = StartMs + FLUSH_INTERVAL]

\* one request handler, every credential, session and persisted role: a
\* session cookie is varied for the credentials that resolve to a user (the
\* others never get as far as reading it), the persisted role for the caller
\* whose row it is
Init ==
    /\ InitCommon
    /\ rendering = InRender
    /\ NoProxyTraffic
    /\ auditDb = << >>
    /\ buffer \in BufferInputs
    /\ flushTimeout = (buffer # <<>>)
    /\ timers = ArmedFor(buffer)
    /\ ledger = [created |-> Len(buffer) + Len(auditDb), lost |-> 0, purged |-> 0]
    /\ NoActivityYet
    /\ \E c \in Credentials, x \in Sessions, p \in ProfileInputs :
         /\ c \notin Users => x = NoSession
         /\ c # "u1" => p["u1"] = "user"
         /\ profiles = p
         /\ cred = [r \in Requests |-> IF r = "rA" THEN c ELSE "anon"]
         /\ sess = [r \in Requests |-> IF r = "rA" THEN x ELSE NoSession]
    /\ req = [r \in Requests |-> IF r = "rA" THEN "new" ELSE "closed"]
    /\ opLimit = MaxOps

RequestStep(r) ==
    \/ CallVerifySession(r)
    \/ CallHasPermission(r)
    \/ CallHasAnyPermission(r)
    \/ CallHasAllPermissions(r)
    \/ CallCheckAccess(r)
    \/ CallRequireAuth(r)
    \/ CallRequirePermission(r)
    \/ CallCanAccessResource(r)
    \/ VerifyRejected(r)
    \/ ResumeVerifySession(r)
    \/ ResumeHasPermission(r)
    \/ ResumeHasAnyPermission(r)
    \/ ResumeHasAllPermissions(r)
    \/ ResumeCheckAccess(r)
    \/ ResumeRequireAuth(r)
    \/ ResumeRequirePermission(r)
    \/ ResumeCanAccessResource(r)
    \/ AuditCtx(r)
    \/ AuditWrite(r)
    \/ Redirect(r)
    \/ ResCreateClient(r)
    \/ ResLookup(r)

VerifyStep(s) ==
    \/ VsCreateClient(s)
    \/ VsGetUser(s)
    \/ VsGetSession(s)
    \/ VsSignOut(s)
    \/ VsProfile(s)

Next ==
    \/ \E r \in Requests : RequestStep(r)
    \/ \E s \in Requests : VerifyStep(s)
    \/ Tick

Spec == Init /\ [][Next]_vars

\* one request served by a Route Handler, which zero-trust.ts names as a caller
\* of requireAuth: the handler calls verifySession, requireAuth and
\* checkAccess in any order (the audit buffer starts empty, so the entries of
\* its calls stay buffered)
MaxHandlerOps == 2
InitHandler ==
    /\ InitCommon
    /\ rendering = InRouteHandler
    /\ NoProxyTraffic
    /\ auditDb = << >>
    /\ buffer = << >>
    /\ flushTimeout = FALSE
    /\ timers = NoTimers
    /\ ledger = [created |-> 0, lost |-> 0, purged |-> 0]
    /\ NoActivityYet
    /\ \E c \in Credentials, x \in Sessions, p \in ProfileInputs :
         /\ c \notin Users => x = NoSession
         /\ c # "u1" => p["u1"] = "user"
         /\ profiles = p
         /\ cred = [r \in Requests |-> IF r = "rA" THEN c ELSE "anon"]
         /\ sess = [r \in Requests |-> IF r = "rA" THEN x ELSE NoSession]
    /\ req = [r \in Requests |-> IF r = "rA" THEN "new" ELSE "closed"]
    /\ opLimit = MaxHandlerOps

NextHandler ==
    \/ CallVerifySession("rA")
    \/ CallRequireAuth("rA")
    \/ CallCheckAccess("rA")
    \/ VerifyRejected("rA")
    \/ ResumeVerifySession("rA")
    \/ ResumeRequireAuth("rA")
    \/ ResumeCheckAccess("rA")
    \/ AuditCtx("rA")
    \/ Redirect("rA")
    \/ VsCreateClient("rA")
    \/ VsGetUser("rA")
    \/ VsGetSession("rA")
    \/ VsSignOut("rA")
    \/ VsProfile("rA")
    \/ Tick

SpecHandler == InitHandler /\ [][NextHandler]_vars

\* two request handlers that overlap in any way, and role updates in between
InitTwo ==
    /\ InitCommon
    /\ rendering = InRender
    /\ NoProxyTraffic
    /\ auditDb = << >>
    /\ buffer = <<>>
    /\ flushTimeout = FALSE
    /\ timers = NoTimers
    /\ ledger = [created |-> Len(buffer) + Len(auditDb), lost |-> 0, purged |-> 0]
    /\ NoActivityYet
    /\ profiles \in ProfileInputs
    /\ cred \in [Requests -> Users]
    /\ sess \in {[r \in Requests |-> IF r = "rA" THEN x ELSE [present |-> TRUE, expires_at |-> 2]] :
                  x \in {y \in Sessions : y.present /\ y.expires_at # 1}}
    /\ req = [r \in Requests |-> "new"]
    /\ opLimit = MaxOpsTwo

NextTwo ==
    \/ \E r \in Requests : CallVerifySession(r)
    \/ \E r \in Requests : ResumeVerifySession(r)
    \/ \E r \in Requests : VerifyRejected(r)
    \/ \E s \in Requests : VerifyStep(s)
    \/ RoleWrite

SpecTwo == InitTwo /\ [][NextTwo]_vars

\* one request handler that asks canAccessResource, while resource rows change
InitRes ==
    /\ InitCommon
    /\ rendering = InRender
    /\ NoProxyTraffic
    /\ auditDb = << >>
    /\ buffer = <<>>
    /\ flushTimeout = FALSE
    /\ timers = NoTimers
    /\ ledger = [created |-> Len(buffer) + Len(auditDb), lost |-> 0, purged |-> 0]
    /\ NoActivityYet
    /\ profiles \in {p \in ProfileInputs : p["u1"] \in Roles}
    /\ cred \in {[r \in Requests |-> IF r = "rA" THEN c ELSE "anon"] : c \in {"anon", "u1"}}
    /\ sess \in {[r \in Requests |-> IF r = "rA" THEN [present |-> TRUE, expires_at |-> e]
                                    ELSE NoSession] : e \in {0, 2}}
    /\ req = [r \in Requests |-> IF r = "rA" THEN "new" ELSE "closed"]
    /\ opLimit = MaxOps

NextRes ==
    \/ \E r \in Requests : CallCanAccessResource(r)
    \/ \E r \in Requests : VerifyRejected(r)
    \/ \E r \in Requests : ResumeCanAccessResource(r)
    \/ \E r \in Requests : ResCreateClient(r)
    \/ \E r \in Requests : ResLookup(r)
    \/ \E s \in Requests : VerifyStep(s)
    \/ ResourceChange

SpecRes == InitRes /\ [][NextRes]_vars

\* two signed-in users whose handlers call updateUserRole in any interleaving;
\* the profiles table starts with at least one admin
InitRole ==
    /\ InitCommon
    /\ rendering = InRender
    /\ NoProxyTraffic
    /\ auditDb = << >>
    /\ buffer = <<>>
    /\ flushTimeout = FALSE
    /\ timers = NoTimers
    /\ ledger = [created |-> 0, lost |-> 0, purged |-> 0]
    /\ NoActivityYet
    /\ profiles \in {p \in [Users -> Roles \cup {NoRow, NullRole}] :
                        /\ \E u \in Users : p[u] = "admin"
                        /\ p["u2"] \in Roles}
    /\ cred = [r \in Requests |-> IF r = "rA" THEN "u1" ELSE "u2"]
    /\ sess = [r \in Requests |-> [present |-> TRUE, expires_at |-> 2]]
    /\ req = [r \in Requests |-> "new"]
    /\ opLimit = MaxRoleOps

NextRole ==
    \/ \E r \in Requests : CallUpdateUserRole(r)
    \/ \E r \in Requests : ResumeUpdateUserRole(r)
    \/ \E r \in Requests : RoleCreateClient(r)
    \/ \E r \in Requests : RoleUpdate(r)
    \/ \E s \in Requests : GcuCreateClient(s)
    \/ \E s \in Requests : GcuGetUser(s)
    \/ \E s \in Requests : GcuProfile(s)

SpecRole == InitRole /\ [][NextRole]_vars

\* callers of the audit logger in any interleaving, with the flush timer
MaxAuditOps == 2
AuditBufferInputs ==
    {[i \in 1..n |-> EarlierEntry] : n \in {0, BUFFER_SIZE - 1}}

InitAudit ==
    /\ InitCommon
    /\ rendering = InRender
    /\ NoProxyTraffic
    /\ auditDb = << >>
    /\ buffer \in AuditBufferInputs
    /\ flushTimeout = (buffer # <<>>)
    /\ timers = ArmedFor(buffer)
    /\ ledger = [created |-> Len(buffer) + Len(auditDb), lost |-> 0, purged |-> 0]
    /\ NoActivityYet
    /\ profiles = [u \in Users |-> "user"]
    /\ cred = [r \in Requests |-> "anon"]
    /\ sess = [r \in Requests |-> NoSession]
    /\ req = [r \in Requests |-> "new"]
    /\ opLimit = MaxAuditOps

AuditStep(r) ==
    \/ LogCtx(r)
    \/ LogWrite(r)

\* rA is a server action recording what a user and an admin did; rB is a
\* job outside any request that reports security events and flushes
NextAudit ==
    \/ CallUserAction("rA")
    \/ CallDataModification("rA")
    \/ CallAdminAction("rA")
    \/ CallSecurityEvent("rB")
    \/ CallFlush("rB")
    \/ \E r \in Requests : AuditStep(r)
    \/ TimerFire
    \/ TimerWriteDone

SpecAudit == InitAudit /\ [][NextAudit]_vars

\* the same with the event loop running the callback of a pending setTimeout
SpecAuditFair == SpecAudit /\ WF_vars(TimerFire)

\* the audit_logs table under the commands of a signed-in user's client, the
\* retention function and the logger's writes; earlier processes persisted no
\* row, one row 91 days ago, or that one and one just now
MaxRetentionOps == 2
OldRow ==
    [RowsOf(<< EarlierEntry >>)[1] EXCEPT
        !.timestamp = [date |-> ToISOString(StartMs).date - RETENTION_DAYS - 1,
                       time |-> 0]]
AuditDbInputs == {<< >>, << OldRow >>, << OldRow >> \o RowsOf(<< EarlierEntry >>)}

InitRetention ==
    /\ InitCommon
    /\ rendering = InRender
    /\ NoProxyTraffic
    /\ auditDb \in AuditDbInputs
    /\ buffer = << >>
    /\ flushTimeout = FALSE
    /\ timers = NoTimers
    /\ ledger = [created |-> Len(auditDb), lost |-> 0, purged |-> 0]
    /\ NoActivityYet
    /\ profiles = [u \in Users |-> "user"]
    /\ cred = [r \in Requests |-> "anon"]
    /\ sess = [r \in Requests |-> NoSession]
    /\ req = [r \in Requests |-> "new"]
    /\ opLimit = MaxRetentionOps

\* rA is the client of the signed-in user u1; rB reports security events
NextRetention ==
    \/ UserUpdatesRow("rA")
    \/ UserDeletesRow("rA")
    \/ UserCallsRetention("rA")
    \/ RetentionJob
    \/ CallSecurityEvent("rB")
    \/ LogCtx("rB")
    \/ LogWrite("rB")
    \/ TimerFire
    \/ TimerWriteDone

SpecRetention == InitRetention /\ [][NextRetention]_vars

\* callers of trackActivity in any interleaving; an identity's window starts
\* empty or as earlier calls left it
MaxTrackOps == 2
Earlier(n, action, firstMs) ==
    [i \in 1..n |-> ActivityContext("u1", action, firstMs + i)]
ActivityInputs ==
    { <<>>,
      Earlier(FailedThreshold, "login_failed", StartMs - 10),
      Earlier(RapidThreshold - 1, "login", StartMs - 100),
      Earlier(RapidThreshold, "login_failed", StartMs - 100),
      Earlier(ActivityCapacity - 1, "Failed_login", StartMs - WindowMs - 200),
      Earlier(ActivityCapacity, "login", StartMs - 200) }

InitActivity ==
    /\ InitCommon
    /\ rendering = InRender
    /\ NoProxyTraffic
    /\ auditDb = << >>
    /\ buffer = <<>>
    /\ flushTimeout = FALSE
    /\ timers = NoTimers
    /\ ledger = [created |-> Len(buffer) + Len(auditDb), lost |-> 0, purged |-> 0]
    /\ recentActivity \in {[u \in Users |-> IF u = "u1" THEN w ELSE <<>>] :
                              w \in ActivityInputs}
    /\ arrivals = recentActivity
    /\ profiles = [u \in Users |-> "user"]
    /\ cred = [r \in Requests |-> "anon"]
    /\ sess = [r \in Requests |-> NoSession]
    /\ req = [r \in Requests |-> "new"]
    /\ opLimit = MaxTrackOps

NextActivity ==
    \/ \E r \in Requests : TrackActivity(r)
    \/ \E r \in Requests : AnomalyCtx(r)
    \/ \E r \in Requests : AnomalyWrite(r)

SpecActivity == InitActivity /\ [][NextActivity]_vars

\* the proxy alone: requests of three addresses in any order, the clock
\* stepping past the window's end; the first address has already made none,
\* all but one, or all of the requests its window allows
EarlierRequests == {0, RATE_LIMIT_MAX_REQUESTS - 1, RATE_LIMIT_MAX_REQUESTS}
InitProxy ==
    /\ InitCommon
    /\ rendering = InRender
    /\ auditDb = << >>
    /\ buffer = <<>>
    /\ flushTimeout = FALSE
    /\ timers = NoTimers
    /\ ledger = [created |-> 0, lost |-> 0, purged |-> 0]
    /\ NoActivityYet
    /\ profiles = [u \in Users |-> "user"]
    /\ cred = [r \in Requests |-> "anon"]
    /\ sess = [r \in Requests |-> NoSession]
    /\ req = [r \in Requests |-> "closed"]
    /\ opLimit = 0
    /\ \E k \in EarlierRequests :
         /\ ipRequestCounts =
              [ip \in ProxyIps |->
                 IF ip = FirstIp /\ k > 0
                 THEN [present |-> TRUE, count |-> k,
                       resetTime |-> CurrentTime(StartMs) + RATE_LIMIT_WINDOW]
                 ELSE NoIpData]
         /\ passed = [ip \in ProxyIps |-> IF ip = FirstIp THEN k ELSE 0]
    /\ exchange = NoExchange
    /\ proxyDone = 0

NextProxy ==
    \/ ProxyRequest
    \/ ProxyTick

SpecProxy == InitProxy /\ [][NextProxy]_vars

TypeOK ==
    /\ now \in Nat /\ ticks \in 0..MaxTicks
    /\ \A r \in Requests : op[r].pc \in {"idle", "verify", "auditCtx", "auditWrite",
                                          "redirect", "resClient", "resLookup",
                                          "logCtx", "logWrite", "rapidCtx",
                                          "rapidWrite", "failedCtx", "failedWrite",
                                          "dalUser", "roleClient", "roleUpdate"}
    /\ Len(buffer) < BUFFER_SIZE

\* ================================================================= claims
Settled(s) == cache[s].pc = "settled"
Completed(o) == o.pc = "idle" /\ o.outcome \in {"returned", "redirected", "threw"}
ThePerm(o) == CHOOSE p \in o.perms : TRUE

\* C1: verifySession never throws to its caller: whenever a collaborator
\* throws it returns null, and an identity it returns is fully populated.
C1_NeverThrows ==
    \A s \in Requests :
        Settled(s) =>
            /\ cache[s].val.kind \in {"null", "user"}
            /\ cache[s].val.kind = "user" =>
                  /\ cache[s].val.id \in Users
                  /\ cache[s].val.permissions # {}
                  /\ cache[s].val.sessionValid

\* C2: when the role lookup fails (error result or exception) for a caller
\* with a valid credential and session, verifySession returns null.
C2_FailClosedOnRoleLookup ==
    \A s \in Requests :
        (Settled(s) /\ cache[s].lookup \in {"error", "throw"}) =>
            cache[s].val = NullResult

\* C3: a session whose expires_at is in the past makes verifySession return
\* null with exactly one sign-out; a session whose expiry is not in the past
\* triggers no sign-out.
C3_ExpiredSessionSignedOut ==
    \A s \in Requests :
        (Settled(s) /\ cache[s].checkedAt >= 0 /\ sess[cache[s].owner].expires_at # 0) =>
            LET session == sess[cache[s].owner] IN
            /\ session.expires_at * 1000 < cache[s].checkedAt =>
                  /\ cache[s].val = NullResult
                  /\ stats[cache[s].owner].signOut = 1
            /\ session.expires_at * 1000 >= cache[s].checkedAt =>
                  stats[cache[s].owner].signOut = 0

\* C4 (as stated): within one request all verifySession calls, direct or
\* through the other operations, cost at most one authentication and one
\* role-lookup round trip and resolve to the same result.
C4_OneVerificationPerRequest ==
    \A r \in Requests :
        /\ stats[r].runs <= 1
        /\ stats[r].getUser <= 1
        /\ stats[r].getSession <= 1
        /\ stats[r].roleLookup <= 1
        /\ Cardinality(returned[r]) <= 1

\* C5: a request never gets the identity or role cached for another request:
\* the identity it gets is the one of its own credential, it comes from a
\* verification the request ran itself, and when no role was written since the
\* request began (and no lookup failed) its role is the one now in storage.
C5_NoCrossRequestCache ==
    \A r \in Requests :
        \A v \in returned[r] :
            /\ stats[r].runs >= 1
            /\ v.kind = "user" =>
                  /\ v.id = cred[r]
                  /\ (startedAt[r] = roleWrites
                      /\ \A s \in Requests : cache[s].lookup # "error")
                        => v.role = RoleOfProfile(profiles[v.id])

C5_Witness ==
    \E a, b \in Requests :
        /\ a # b
        /\ cred[a] = cred[b]
        /\ roleWrites = 1
        /\ startedAt[a] = 0
        /\ startedAt[b] = 1
        /\ \E va \in returned[a], vb \in returned[b] :
              /\ va.kind = "user"
              /\ vb.kind = "user"
              /\ va.role # vb.role
              /\ vb.role = profiles[cred[b]]

\* C6: every VerifiedUser returned by verifySession has a role of the closed
\* enumeration; a missing row or an unrecognized persisted role yields role
\* user with the user permission set.
C6_RoleInEnumeration ==
    \A s \in Requests :
        (Settled(s) /\ cache[s].val.kind = "user") =>
            /\ cache[s].val.role \in Roles
            /\ (cache[s].lookup = "ok" /\ roleWrites = 0
                /\ profiles[cache[s].val.id] \notin Roles) =>
                  /\ cache[s].val.role = "user"
                  /\ cache[s].val.permissions = ROLE_PERMISSIONS["user"]

\* C7 (as stated): requirePermission(p, target) returns only a verified
\* identity that has p; for a verified identity without p it emits exactly one
\* security_unauthorized entry (reason "Insufficient permissions", required p,
\* userRole the caller's role), then redirects to target and never returns.
C7_RequirePermission ==
    \A r \in Requests :
        op[r].name = "requirePermission" =>
            LET o == op[r]
                u == o.ret.user
                p == ThePerm(o)
            IN /\ o.outcome = "returned" => (u.kind = "user" /\ p \in u.permissions)
               /\ (o.pc # "verify" /\ u.kind = "user" /\ p \notin u.permissions) =>
                    /\ o.outcome \in {"running", "redirected"}
                    /\ o.pc = "auditCtx" => o.emitted = <<>>
                    /\ (o.pc \in {"auditWrite", "redirect"} \/ o.outcome = "redirected") =>
                          /\ Len(o.emitted) = 1
                          /\ o.emitted[1].action = "security_unauthorized"
                          /\ o.emitted[1].metadata.reason = "Insufficient permissions"
                          /\ o.emitted[1].metadata.required = p
                          /\ o.emitted[1].metadata.userRole = u.role
                          /\ o.emitted[1].user_id = u.id
                    /\ o.outcome = "redirected" =>
                          (o.dest = o.target /\ req[r] = "redirected")

\* C8: requireAuth(target) whose verification yields no identity emits exactly
\* one security_unauthorized entry with reason "No valid session" before it
\* redirects to target, and never returns; with an identity it returns the
\* identity and emits nothing.
C8_RequireAuth ==
    \A r \in Requests :
        op[r].name = "requireAuth" =>
            LET o == op[r] IN
            /\ o.outcome = "returned" =>
                  (o.ret.user.kind = "user" /\ o.emitted = <<>> /\ req[r] = "open")
            /\ (o.pc # "verify" /\ o.ret.user = NullResult) =>
                  /\ o.outcome \in {"running", "redirected"}
                  /\ o.outcome = "running" => o.pc \in {"auditCtx", "auditWrite", "redirect"}
            /\ o.pc = "auditCtx" => o.emitted = <<>>
            /\ (o.pc \in {"auditWrite", "redirect"} \/ o.outcome = "redirected") =>
                  /\ Len(o.emitted) = 1
                  /\ o.emitted[1].action = "security_unauthorized"
                  /\ o.emitted[1].metadata.reason = "No valid session"
                  /\ o.emitted[1].metadata.redirect = o.target
            /\ o.pc \in {"auditCtx", "auditWrite", "redirect"} => req[r] = "open"
            /\ o.outcome = "redirected" => (o.dest = o.target /\ req[r] = "redirected")

C8_Witness ==
    \E r \in Requests :
        /\ op[r].name = "requireAuth"
        /\ op[r].outcome = "redirected"
        /\ op[r].dest = "/login"
        /\ Len(op[r].emitted) = 1

\* C9: canAccessResource(type, id, "update") on an existing resource returns
\* allowed:true when the caller's verified role is admin, whoever owns it.
C9_AdminBypass ==
    \A r \in Requests :
        ( /\ op[r].name = "canAccessResource"
          /\ op[r].act = "update"
          /\ op[r].pc # "verify"
          /\ resources[op[r].resId] # NoRow
          /\ \E v \in returned[r] : v.kind = "user" /\ v.role = "admin" ) =>
            /\ Completed(op[r])
            /\ op[r].outcome = "returned"
            /\ op[r].ret.allowed
            /\ op[r].ret.reason = Absent
            /\ op[r].ret.user.role = "admin"

C9_Witness ==
    \E r \in Requests :
        /\ op[r].name = "canAccessResource"
        /\ op[r].act = "update"
        /\ op[r].outcome = "returned"
        /\ op[r].ret.allowed
        /\ op[r].ret.user.role = "admin"
        /\ resources[op[r].resId] \notin {NoRow, op[r].ret.user.id}

\* C10: for a verified non-admin caller and a resource row that was found,
\* update and delete are allowed iff the caller owns the row or is a
\* moderator; a user-role non-owner is denied with "Not resource owner".
C10_OwnershipEnforced ==
    \A r \in Requests :
        ( /\ op[r].name = "canAccessResource"
          /\ op[r].act \in {"update", "delete"}
          /\ op[r].outcome = "returned"
          /\ op[r].ret.user.kind = "user"
          /\ op[r].ret.user.role # "admin"
          /\ op[r].row # NoRow ) =>
            LET u == op[r].ret.user IN
            /\ op[r].ret.allowed <=> (op[r].row = u.id \/ u.role = "moderator")
            /\ op[r].ret.allowed => op[r].ret.reason = Absent
            /\ (u.role = "user" /\ op[r].row # u.id) =>
                  (~op[r].ret.allowed /\ op[r].ret.reason = "Not resource owner")

C10_Witness ==
    \E r \in Requests :
        /\ op[r].name = "canAccessResource"
        /\ op[r].act = "update"
        /\ op[r].outcome = "returned"
        /\ op[r].ret.user.role = "user"
        /\ op[r].row \notin {NoRow, op[r].ret.user.id}
        /\ ~op[r].ret.allowed
        /\ op[r].ret.reason = "Not resource owner"

\* C11 (as stated): for every authenticated caller, canAccessResource(type,
\* id, "read") on an id that has no resource row returns allowed:false with
\* reason "Resource not found".
C11_NotFoundForEveryCaller ==
    \A r \in Requests :
        ( /\ op[r].name = "canAccessResource"
          /\ op[r].act = "read"
          /\ Completed(op[r])
          /\ \E v \in returned[r] : v.kind = "user"
          /\ resources[op[r].resId] = NoRow ) =>
            /\ op[r].outcome = "returned"
            /\ ~op[r].ret.allowed
            /\ op[r].ret.reason = "Resource not found"

\* C11 (amended): for an authenticated caller whose role is not admin, a
\* canAccessResource(type, id, "read") call whose lookup finds no row for the
\* id returns allowed:false with reason "Resource not found"; an admin caller
\* is allowed before any lookup is made, whether or not the row exists.
C11_NotFound ==
    \A r \in Requests :
        ( /\ op[r].name = "canAccessResource"
          /\ op[r].act = "read"
          /\ op[r].outcome = "returned"
          /\ op[r].ret.user.kind = "user"
          /\ resources[op[r].resId] = NoRow ) =>
            IF op[r].ret.user.role = "admin"
            THEN op[r].ret.allowed /\ op[r].lookups = 0
            ELSE /\ ~op[r].ret.allowed
                 /\ op[r].ret.reason = "Resource not found"
                 /\ op[r].lookups = 1

C11_Witness ==
    \E r \in Requests :
        /\ op[r].name = "canAccessResource"
        /\ op[r].act = "read"
        /\ op[r].outcome = "returned"
        /\ op[r].ret.user.role = "user"
        /\ op[r].resId = "resX"
        /\ op[r].lookup = "ok"
        /\ ~op[r].ret.allowed
        /\ op[r].ret.reason = "Resource not found"

\* C12: when the ownership lookup fails (an error result or an exception),
\* canAccessResource returns a denied AccessCheck: it never returns
\* allowed:true and never throws to its caller.
C12_LookupFailureDenied ==
    \A r \in Requests :
        ( /\ op[r].name = "canAccessResource"
          /\ Completed(op[r])
          /\ op[r].lookup \in {"error", "throw"} ) =>
            /\ op[r].outcome = "returned"
            /\ ~op[r].ret.allowed

\* C13: no public method of the audit logger (userAction, dataModification,
\* adminAction, securityEvent, flush, the timer-driven flush) raises to its
\* caller when the durable write fails or throws, whether the entry was
\* critical or buffered.
AuditMethods == {"userAction", "dataModification", "adminAction", "securityEvent"}
C13_AuditNeverRaises ==
    /\ \A r \in Requests :
          op[r].name \in AuditMethods \cup {"flush"} =>
            /\ op[r].outcome # "threw"
            /\ op[r].written \in {"error", "throw"} => op[r].outcome = "returned"
    /\ ~timers.rejected

C13_Witness ==
    /\ op["rA"].name = "adminAction"
    /\ Len(op["rA"].batch) = 1
    /\ op["rA"].written = "throw"
    /\ op["rA"].outcome = "returned"
    /\ op["rB"].name = "flush"
    /\ Len(op["rB"].batch) > 1
    /\ op["rB"].written = "error"
    /\ op["rB"].outcome = "returned"

\* C14 (as stated): a critical audit call is handed to the durable write
\* without entering the buffer, and its row is observable before any
\* non-critical entry buffered before the call has been flushed to storage.
C14_CriticalObservableFirst ==
    \A r \in Requests :
        ( /\ op[r].name \in AuditMethods
          /\ Completed(op[r])
          /\ ACTION_SEVERITY[op[r].action] = "critical"
          /\ op[r].written = "ok"
          /\ op[r].snap.buf > 0
          /\ op[r].snap.quiet ) =>
            /\ Len(op[r].batch) = 1
            /\ op[r].rowsAtEnd = op[r].snap.rows

\* C14 (amended): a critical audit call is handed to the durable write during
\* that call without entering the buffer; the call leaves the buffer contents
\* and the pending timer unchanged, so the entries buffered then are still
\* unflushed when its write is issued, and a successful write appends exactly
\* its row.  (A timer flush that fires while that write is in flight may be
\* persisted first.)
C14_CriticalBypassesBuffer ==
    [][ \A r \in Requests :
          ( op[r].name \in AuditMethods /\ ACTION_SEVERITY[op[r].action] = "critical" ) =>
            /\ ( op[r].pc = "logCtx" /\ op'[r].pc # "logCtx" ) =>
                  /\ op'[r].pc = "logWrite"
                  /\ Len(op'[r].batch) = 1
                  /\ op'[r].batch[1].action = op[r].action
                  /\ UNCHANGED << buffer, flushTimeout, timers >>
            /\ ( op[r].pc = "logWrite" /\ op'[r].pc # "logWrite" ) =>
                  /\ UNCHANGED << buffer, flushTimeout, timers >>
                  /\ op'[r].written = "ok" =>
                        auditDb' = auditDb \o RowsOf(op[r].batch) ]_vars

C14_Witness ==
    \E r \in Requests :
        /\ op[r].name = "adminAction"
        /\ op[r].outcome = "returned"
        /\ op[r].written = "ok"
        /\ Len(buffer) = BUFFER_SIZE - 1
        /\ flushTimeout
        /\ Len(auditDb) = 1
        /\ auditDb[1].action = "admin_role_change"

\* C15: the 10th non-critical audit call since the last flush hands all 10
\* entries to the write as one batch during that call, without waiting for
\* the timer; the buffer is empty and the timer cleared right after, and a
\* successful write persists the 10 rows together.
C15_FlushBySize ==
    [][ \A r \in Requests :
          ( op[r].name \in AuditMethods /\ ACTION_SEVERITY[op[r].action] # "critical" ) =>
            /\ ( op[r].pc = "logCtx" /\ op'[r].pc # "logCtx"
                  /\ Len(buffer) = BUFFER_SIZE - 1 ) =>
                  /\ op'[r].pc = "logWrite"
                  /\ Len(op'[r].batch) = BUFFER_SIZE
                  /\ op'[r].batch = Append(buffer, op'[r].emitted[1])
                  /\ buffer' = <<>>
                  /\ ~flushTimeout'
                  /\ timers'.due = -1
            /\ ( op[r].pc = "logCtx" /\ op'[r].pc # "logCtx"
                  /\ Len(buffer) < BUFFER_SIZE - 1 ) =>
                  /\ op'[r].pc = "idle"
                  /\ buffer' = Append(buffer, op'[r].emitted[1])
            /\ ( op[r].pc = "logWrite" /\ op'[r].pc # "logWrite"
                  /\ op'[r].written = "ok" ) =>
                  auditDb' = auditDb \o RowsOf(op[r].batch) ]_vars

C15_Witness ==
    \E r \in Requests :
        /\ op[r].name = "securityEvent"
        /\ op[r].action = "security_rate_limit"
        /\ op[r].outcome = "returned"
        /\ op[r].written = "ok"
        /\ Len(op[r].batch) = BUFFER_SIZE
        /\ op[r].snap.buf = BUFFER_SIZE - 1
        /\ buffer = <<>>
        /\ ~flushTimeout
        /\ timers.fired = 0
        /\ Len(auditDb) = BUFFER_SIZE

\* the timer discipline of log(), flush() and the timer callback: a timer is
\* pending exactly while entries are buffered, every timer set has fired, was
\* cancelled or is the pending one; the first entry buffered since the last
\* flush arms it for now + FLUSH_INTERVAL and entries buffered later neither
\* re-arm nor postpone it; a firing hands the whole buffer to the write,
\* leaves the buffer empty and clears the timer handle.
C16_TimerDiscipline ==
    /\ [] ( /\ flushTimeout <=> buffer # <<>>
            /\ timers.set - timers.fired - timers.cancelled
                 = (IF flushTimeout THEN 1 ELSE 0)
            /\ flushTimeout <=> timers.due # -1 )
    /\ [][ /\ ( flushTimeout /\ flushTimeout' ) =>
                 ( timers'.set = timers.set /\ timers'.due = timers.due )
           /\ ( ~flushTimeout /\ flushTimeout' ) =>
                 ( buffer = <<>> /\ Len(buffer') = 1 /\ timers'.set = timers.set + 1
                   /\ timers'.due = now + FLUSH_INTERVAL )
           /\ timers'.fired # timers.fired =>
                 /\ timers'.fired = timers.fired + 1
                 /\ flushTimeout
                 /\ buffer' = <<>>
                 /\ ~flushTimeout'
                 /\ timerWrites' = Append(timerWrites, buffer) ]_vars

\* C16 (as stated): with fewer than 10 buffered entries a single delayed-flush
\* timer is armed by the first entry buffered since the last flush, entries
\* buffered later neither re-arm nor postpone it, and it fires exactly once:
\* short of a tenth entry a pending timer stops being pending only by firing,
\* and every timer set does fire; its firing flushes the whole buffer, leaves
\* it empty and clears the handle.
C16_FiresExactlyOnce ==
    /\ C16_TimerDiscipline
    /\ [][ ( flushTimeout /\ ~flushTimeout' /\ ledger'.created = ledger.created ) =>
               timers'.fired = timers.fired + 1 ]_vars
    /\ \A n \in 1..(MaxAuditOps + 1) :
          ( timers.set = n /\ flushTimeout ) ~> ( timers.fired = n )

\* C16: with fewer than 10 buffered entries a single delayed-flush timer is
\* armed by the first entry buffered since the last flush, and entries
\* buffered later neither re-arm nor postpone it.  It fires at most once: a
\* flush that runs while it is pending (an explicit flush(), or the one the
\* tenth entry starts) clears the handle and cancels it, hands the whole
\* buffer to its own write, and the timer never fires; a timer no flush
\* cancels does fire, exactly once.  Its firing flushes the whole buffer,
\* leaves it empty and clears the handle.
C16_SingleTimer ==
    /\ C16_TimerDiscipline
    /\ [][ ( flushTimeout /\ ~flushTimeout' ) =>
             \/ /\ timers'.fired = timers.fired + 1
                /\ timers'.cancelled = timers.cancelled
             \/ /\ timers'.fired = timers.fired
                /\ timers'.cancelled = timers.cancelled + 1
                /\ buffer' = <<>>
                /\ timerWrites' = timerWrites
                /\ \E r \in Requests :
                     /\ op[r].pc # "logWrite"
                     /\ op'[r].pc = "logWrite"
                     /\ Len(op'[r].batch) \in {Len(buffer), BUFFER_SIZE}
                     /\ SubSeq(op'[r].batch, 1, Len(buffer)) = buffer ]_vars
    /\ [][ timers'.fired + timers'.cancelled <= timers.fired + timers.cancelled + 1 ]_vars
    /\ flushTimeout ~> ~flushTimeout

\* an explicit flush() cancelled the timer the earlier entries had armed; the
\* next entry armed a second one, which fired and flushed that entry
C16_Witness ==
    /\ timers.set = 2
    /\ timers.cancelled = 1
    /\ timers.fired = 1
    /\ buffer = <<>>
    /\ ~flushTimeout
    /\ timerWrites = <<>>
    /\ Len(auditDb) = BUFFER_SIZE
    /\ \E r \in Requests : op[r].name = "flush" /\ Len(op[r].batch) = BUFFER_SIZE - 1

\* C17: after any sequence of trackActivity calls each identity's window holds
\* at most 100 entries and is exactly the most recent min(n, 100) of the n
\* contexts given for that identity, in arrival order; the 101st evicts the
\* oldest.
C17_WindowIsLast100 ==
    \A u \in Users :
        LET n == Len(arrivals[u])
            k == IF n < 100 THEN n ELSE 100
        IN /\ Len(recentActivity[u]) <= 100
           /\ recentActivity[u] = SubSeq(arrivals[u], n - k + 1, n)

C17_Witness ==
    /\ Len(arrivals["u1"]) = 101
    /\ Len(recentActivity["u1"]) = 100
    /\ recentActivity["u1"][1] = arrivals["u1"][2]
    /\ recentActivity["u1"][1] # arrivals["u1"][1]
    /\ recentActivity["u1"][100] = arrivals["u1"][101]

\* the window a call left: the last 100 contexts up to its own, of which
\* InWindow are less than 5 minutes old
WindowOf(o) ==
    {i \in 1..o.arrival : i > o.arrival - 100}
InWindow(o) ==
    {i \in WindowOf(o) : now - arrivals[o.userId][i].timestamp < 5 * 60 * 1000}
\* audit entries a call emitted with the given metadata.reason
EmittedFor(o, reason) ==
    {i \in 1..Len(o.emitted) :
        /\ o.emitted[i].action = "security_suspicious"
        /\ o.emitted[i].metadata.reason = reason}

\* C18: a trackActivity call that leaves 51 or more entries of its identity
\* within the last 5 minutes causes exactly one security_suspicious audit
\* entry with metadata.reason "Rapid request rate"; a call that leaves 50 or
\* fewer causes none for this rule.
C18_RapidRequestRate ==
    \A r \in Requests :
        ( op[r].name = "trackActivity" /\ Completed(op[r]) ) =>
            /\ op[r].outcome = "returned"
            /\ Cardinality(EmittedFor(op[r], "Rapid request rate"))
                 = (IF Cardinality(InWindow(op[r])) >= 51 THEN 1 ELSE 0)
            /\ \A i \in EmittedFor(op[r], "Rapid request rate") :
                 /\ op[r].emitted[i].metadata.requestCount = Cardinality(InWindow(op[r]))
                 /\ op[r].emitted[i].user_id = op[r].userId

C18_Witness ==
    \E r \in Requests :
        /\ op[r].name = "trackActivity"
        /\ op[r].outcome = "returned"
        /\ Cardinality(InWindow(op[r])) = 51
        /\ Len(op[r].emitted) = 1
        /\ op[r].emitted[1].metadata.reason = "Rapid request rate"
        /\ op[r].emitted[1].severity = "critical"
        /\ Len(auditDb) = 1
        /\ auditDb[1].metadata.json.requestCount = 51

\* entries of the window a call left that are less than 5 minutes old and
\* whose action contains "failed"
FailedInWindow(o) ==
    {i \in InWindow(o) : arrivals[o.userId][i].action \in {"login_failed"}}

\* C19: a trackActivity call that leaves 6 or more entries within the last 5
\* minutes whose action contains "failed" causes exactly one
\* security_suspicious audit entry with metadata.reason "Multiple failed
\* attempts"; with 5 or fewer such entries it causes none for this rule.
C19_MultipleFailedAttempts ==
    \A r \in Requests :
        ( op[r].name = "trackActivity" /\ Completed(op[r]) ) =>
            /\ op[r].outcome = "returned"
            /\ Cardinality(EmittedFor(op[r], "Multiple failed attempts"))
                 = (IF Cardinality(FailedInWindow(op[r])) >= 6 THEN 1 ELSE 0)
            /\ \A i \in EmittedFor(op[r], "Multiple failed attempts") :
                 /\ op[r].emitted[i].metadata.failedCount
                      = Cardinality(FailedInWindow(op[r]))
                 /\ op[r].emitted[i].user_id = op[r].userId

C19_Witness ==
    \E r \in Requests :
        /\ op[r].name = "trackActivity"
        /\ op[r].outcome = "returned"
        /\ op[r].arrival = 6
        /\ Cardinality(FailedInWindow(op[r])) = 6
        /\ Len(op[r].emitted) = 1
        /\ op[r].emitted[1].metadata.reason = "Multiple failed attempts"
        /\ op[r].emitted[1].metadata.failedCount = 6

\* C20: hasPermission(p) resolves to the same boolean as checkAccess(p).allowed
\* on the session state the request verified, and the two reject on the same
\* session states: when verifySession rejects, and when the verified role
\* names an inherited member, so that permissions is no list.
C20_HasPermissionIsCheckAccess ==
    \A r \in Requests :
        /\ ( op[r].name = "hasPermission" /\ op[r].outcome = "returned" ) =>
              op[r].ret.allowed = CheckAccess(Verified(r), op[r].perms).allowed
        /\ ( op[r].name = "checkAccess" /\ op[r].outcome = "returned"
               /\ op[r].perms # {} ) =>
              op[r].ret.allowed = HasPermission(Verified(r), ThePerm(op[r]))
        /\ ( op[r].name \in {"hasPermission", "checkAccess"} /\ Completed(op[r]) ) =>
              (op[r].outcome = "threw" <=>
                 \/ Verified(r).kind = "threw"
                 \/ /\ op[r].perms # {}
                    /\ Verified(r).kind = "user"
                    /\ Verified(r).role \in ObjectPrototypeMembers)

C20_Witness ==
    \E r \in Requests :
        /\ op[r].name = "checkAccess"
        /\ op[r].outcome = "returned"
        /\ op[r].perms = {"users:view"}
        /\ op[r].ret.allowed
        /\ opsDone[r] = 2
        /\ \E v \in returned[r] : v.kind = "user" /\ v.role = "moderator"

\* C21 (as stated): checkAccess(permission?) returns exactly one of three results:
\* {allowed:false, reason:"Not authenticated"} with no user when verification
\* yielded no identity; {allowed:false, reason:"Insufficient permissions", user}
\* when it yielded one that lacks the permission; {allowed:true, user} with no
\* reason otherwise, including when no permission is passed.
C21_CheckAccessResults ==
    \A r \in Requests :
        ( op[r].name = "checkAccess" /\ Completed(op[r]) /\ Verified(r).kind # "threw" ) =>
            LET v == Verified(r)
                ret == op[r].ret
                lacks == op[r].perms # {} /\ ThePerm(op[r]) \notin v.permissions
            IN /\ op[r].outcome = "returned"
               /\ v.kind = "null" =>
                    ret = [allowed |-> FALSE, reason |-> "Not authenticated",
                           user |-> NullResult]
               /\ ( v.kind = "user" /\ lacks ) =>
                    ret = [allowed |-> FALSE, reason |-> "Insufficient permissions",
                           user |-> v]
               /\ ( v.kind = "user" /\ ~lacks ) =>
                    ret = [allowed |-> TRUE, reason |-> Absent, user |-> v]
               /\ ret.reason # Absent <=> ~ret.allowed

\* the four query functions of the Access Checker, and the steps that belong
\* to a call of one of them (the handler runs nothing else meanwhile)
QueryFunctions == {"hasPermission", "hasAnyPermission", "hasAllPermissions", "checkAccess"}
QueryCallBefore(r) == op[r].name \in QueryFunctions /\ op[r].outcome = "running"

\* C22 (as stated): hasPermission, hasAnyPermission, hasAllPermissions and
\* checkAccess have no side effects in any session state: no step of a call
\* emits an audit entry, signs out or redirects, and the activity map and the
\* audit buffer stay as they were.
C22_NoSideEffects ==
    [][ \A r \in Requests :
          ( QueryCallBefore(r)
            \/ ( op'[r].name \in QueryFunctions /\ op'[r].outcome = "running" ) ) =>
            /\ UNCHANGED << buffer, flushTimeout, timerWrites, timers, auditDb >>
            /\ UNCHANGED << recentActivity, arrivals >>
            /\ op'[r].emitted = << >>
            /\ req'[r] # "redirected"
            /\ op'[r].dest = ""
            /\ stats'[r].signOut = stats[r].signOut ]_vars

\* C22 (amended): the four query functions emit no audit entry, redirect
\* nowhere and leave the activity map and the audit buffer unchanged; their
\* only effect is the one of the verifySession call they start with, which
\* signs out when it finds the session expired: once per verification that
\* runs, hence at most once per request while a Server Component renders.
C22_OnlyVerifierSignOut ==
    [][ \A r \in Requests :
          ( QueryCallBefore(r)
            \/ ( op'[r].name \in QueryFunctions /\ op'[r].outcome = "running" ) ) =>
            /\ UNCHANGED << buffer, flushTimeout, timerWrites, timers, auditDb >>
            /\ UNCHANGED << recentActivity, arrivals >>
            /\ op'[r].emitted = << >>
            /\ req'[r] # "redirected"
            /\ op'[r].dest = ""
            /\ stats'[r].signOut # stats[r].signOut =>
                 /\ stats'[r].signOut = stats[r].signOut + 1
                 /\ stats'[r].signOut <= stats[r].runs
                 /\ rendering[r] => stats[r].signOut = 0
                 /\ cache[r].pc = "signOut"
                 /\ sess[r].present
                 /\ (IF sess[r].expires_at # 0 THEN sess[r].expires_at * 1000 ELSE 0)
                      < cache[r].checkedAt ]_vars

C22_Witness ==
    \E r \in Requests :
        /\ op[r].name = "hasAllPermissions"
        /\ op[r].outcome = "returned"
        /\ ~op[r].ret.allowed
        /\ opsDone[r] = 1
        /\ sess[r].expires_at = 1
        /\ stats[r].signOut = 1
        /\ op[r].emitted = << >>
        /\ req[r] = "open"
        /\ Len(buffer) = BUFFER_SIZE - 1
        /\ auditDb = << >>

\* C23: through requireAuth and requirePermission called without a redirect
\* target, a caller without a verified identity is redirected to the login
\* destination, and only a verified caller lacking the permission is
\* redirected to the unauthorized destination.
C23_DefaultRedirects ==
    \A r \in Requests :
        ( /\ op[r].name \in {"requireAuth", "requirePermission"}
          /\ op[r].arg = Absent
          /\ op[r].outcome = "redirected" ) =>
            /\ op[r].ret.user.kind # "user" => op[r].dest = "/login"
            /\ op[r].dest = "/unauthorized" =>
                 /\ op[r].name = "requirePermission"
                 /\ op[r].ret.user.kind = "user"
                 /\ ThePerm(op[r]) \notin op[r].ret.user.permissions

\* C24 (as stated): the persisted audit log is append-only: every step other
\* than a run of the scheduled retention job (the logger's calls, its flushes
\* and timer firings, and whatever a signed-in user's client sends) leaves the
\* rows persisted so far as they are, in place; rows are only added behind
\* them.
RetentionJobStep ==
    /\ auditDb' = DeleteOldAuditLogs(auditDb, now)
    /\ UNCHANGED << op, opsDone, timerWrites >>
C24_AppendOnly ==
    [][ ~RetentionJobStep =>
            /\ Len(auditDb') >= Len(auditDb)
            /\ SubSeq(auditDb', 1, Len(auditDb)) = auditDb ]_vars

\* C25 (as stated): canAccessResource performs exactly one resource lookup per
\* call, for every caller state and every action.
C25_ExactlyOneLookup ==
    \A r \in Requests :
        ( op[r].name = "canAccessResource" /\ op[r].outcome = "returned" ) =>
            op[r].lookups = 1

\* C25 (amended): a canAccessResource call makes at most one resource lookup.
\* It makes exactly one when the caller is verified, is not an admin and
\* createClient() resolves, for every action; it makes none when the caller is
\* unauthenticated or an admin (both return before the lookup), when
\* verifySession rejects, or when createClient() throws (the call then
\* rejects).  The lookup reads the row as it is in storage at that moment,
\* never a result of an earlier call, and the decision is taken on that row.
C25_OneFreshLookup ==
    /\ [] ( \A r \in Requests :
              op[r].name = "canAccessResource" =>
                LET pastChecks == op[r].ret.user.kind = "user"
                                  /\ op[r].ret.user.role # "admin"
                IN /\ op[r].lookups <= 1
                   /\ op[r].lookups = 1 <=> op[r].lookup # "none"
                   /\ op[r].lookups = 1 => pastChecks
                   /\ op[r].outcome = "returned" =>
                        op[r].lookups = (IF pastChecks THEN 1 ELSE 0)
                   /\ ( op[r].outcome = "threw" /\ op[r].lookups = 0 ) =>
                        ( op[r].ret.user.kind = "threw" \/ pastChecks )
                   /\ ( op[r].outcome = "threw" /\ op[r].lookups = 1 ) =>
                        op[r].lookup = "throw" )
    /\ [][ \A r \in Requests :
             /\ ( op[r].pc = "resClient" /\ op'[r].pc # "resClient" ) =>
                  /\ op[r].lookups = 0
                  /\ op'[r].lookups = 0
                  /\ op'[r].pc = "resLookup" \/ op'[r].outcome = "threw"
             /\ ( op[r].pc = "resLookup" /\ op'[r].pc # "resLookup" ) =>
                  /\ op'[r].lookups = op[r].lookups + 1
                  /\ op'[r].lookup = "ok" =>
                       /\ op'[r].row = resources[op[r].resId]
                       /\ op'[r].ret = OwnershipDecision(op[r].ret.user,
                                                         resources[op[r].resId], op[r].act) ]_vars

C25_Witness ==
    \E r \in Requests :
        /\ op[r].name = "canAccessResource"
        /\ op[r].outcome = "returned"
        /\ opsDone[r] = 2
        /\ op[r].resId = "res1"
        /\ op[r].act = "update"
        /\ op[r].ret.user.id = "u1"
        /\ op[r].ret.user.role = "user"
        /\ op[r].lookups = 1
        /\ op[r].lookup = "ok"
        /\ ResourceTable["res1"] = "u1"
        /\ op[r].row = "u2"
        /\ ~op[r].ret.allowed
        /\ op[r].ret.reason = "Not resource owner"

\* a trackActivity call of r is suspended inside detectAnomalies
Suspended(r) == op[r].name = "trackActivity" /\ op[r].outcome = "running"

\* C26: when trackActivity calls for the same identity overlap, interleaving
\* at their suspension points, the identity's window keeps the FIFO
\* invariant: it never holds more than 100 entries, it is the latest contexts
\* in the order in which the calls started, none lost and none twice; a call
\* that resumes changes no window, and a call that starts meanwhile appends
\* its context after evicting the oldest of a full window.
C26_OverlapKeepsFifo ==
    /\ [] ( \A u \in Users :
              /\ Len(recentActivity[u]) <= 100
              /\ Len(recentActivity[u]) <= Len(arrivals[u])
              /\ \A i \in 1..Len(recentActivity[u]) :
                    recentActivity[u][i]
                      = arrivals[u][Len(arrivals[u]) - Len(recentActivity[u]) + i]
              /\ Len(arrivals[u]) <= 100 => Len(recentActivity[u]) = Len(arrivals[u]) )
    /\ [][ \A r \in Requests :
             Suspended(r) =>
               /\ op'[r] # op[r] => UNCHANGED << recentActivity, arrivals >>
               /\ \A u \in Users :
                    recentActivity'[u] # recentActivity[u] =>
                      \E r2 \in Requests \ {r} :
                         /\ op[r2].pc = "idle"
                         /\ op'[r2].name = "trackActivity"
                         /\ op'[r2].userId = u
                         /\ op'[r2].arrival = Len(arrivals[u]) + 1
                         /\ Len(arrivals'[u]) = Len(arrivals[u]) + 1
                         /\ recentActivity'[u][Len(recentActivity'[u])]
                              = arrivals'[u][Len(arrivals'[u])]
                         /\ Len(recentActivity'[u])
                              = (IF Len(recentActivity[u]) >= 100 THEN 100
                                 ELSE Len(recentActivity[u]) + 1) ]_vars

C26_Witness ==
    /\ Suspended("rA")
    /\ Suspended("rB")
    /\ op["rA"].userId = "u1"
    /\ op["rB"].userId = "u1"
    /\ op["rA"].arrival = ActivityCapacity + 1
    /\ op["rB"].arrival = ActivityCapacity + 2
    /\ Len(recentActivity["u1"]) = 100
    /\ recentActivity["u1"][99] = arrivals["u1"][101]
    /\ recentActivity["u1"][100] = arrivals["u1"][102]
    /\ recentActivity["u1"][1] = arrivals["u1"][3]

\* timers set and neither fired nor cleared
PendingTimers == timers.set - timers.fired - timers.cancelled

\* C27: in every state between the synchronous steps of audit calls, flush
\* calls and timer firings, the buffer holds fewer than 10 entries, at most
\* one flush timer is pending, and the timer is armed if and only if the
\* buffer is non-empty.
C27_BufferTimerInvariant ==
    /\ Len(buffer) < 10
    /\ PendingTimers \in {0, 1}
    /\ PendingTimers = 1 <=> flushTimeout
    /\ flushTimeout <=> Len(buffer) > 0

C27_Witness ==
    /\ op["rB"].name = "securityEvent"
    /\ op["rB"].pc = "logWrite"
    /\ Len(op["rB"].batch) = BUFFER_SIZE
    /\ op["rA"].name = "userAction"
    /\ op["rA"].outcome = "returned"
    /\ Len(buffer) = 1
    /\ buffer[1].action = "auth_login"
    /\ flushTimeout
    /\ timers.set = 2
    /\ timers.cancelled = 1
    /\ timers.fired = 0

\* entries handed to a write that has not resolved yet
WritePcs == {"logWrite", "auditWrite", "rapidWrite", "failedWrite"}
RECURSIVE EntriesIn(_)
EntriesIn(batches) ==
    IF batches = << >> THEN 0 ELSE Len(Head(batches)) + EntriesIn(Tail(batches))
RECURSIVE BatchesOf(_)
BatchesOf(rs) ==
    IF rs = {} THEN 0
    ELSE LET r == CHOOSE x \in rs : TRUE
         IN (IF op[r].pc \in WritePcs THEN Len(op[r].batch) ELSE 0) + BatchesOf(rs \ {r})
InFlight == EntriesIn(timerWrites) + BatchesOf(Requests)

\* C28: when the durable write of a flushed batch or of a critical entry
\* fails, its entries are dropped: they left the buffer when the write was
\* issued, the failure puts them back neither into the buffer nor into a new
\* write, and they are never persisted later.  Every entry is in exactly one
\* place: buffered, in a write in flight, persisted, or dropped.
C28_FailedWriteDrops ==
    /\ [] ( Len(auditDb) + ledger.purged + ledger.lost + Len(buffer) + InFlight
              = ledger.created )
    /\ [][ /\ \A r \in Requests :
                ( op[r].pc = "logWrite" /\ op'[r].pc # "logWrite"
                  /\ op'[r].written \in {"error", "throw"} ) =>
                    /\ auditDb' = auditDb
                    /\ UNCHANGED << buffer, flushTimeout, timerWrites, timers >>
                    /\ ledger'.lost = ledger.lost + Len(op[r].batch)
                    /\ op'[r].pc = "idle"
                    /\ op'[r].outcome = "returned"
           /\ ( Len(timerWrites') < Len(timerWrites) /\ auditDb' = auditDb ) =>
                    /\ UNCHANGED << buffer, flushTimeout >>
                    /\ ledger'.lost
                         = ledger.lost + (EntriesIn(timerWrites) - EntriesIn(timerWrites'))
                    /\ ledger'.lost > ledger.lost
           /\ ledger'.lost >= ledger.lost
           /\ Len(auditDb') > Len(auditDb) => ledger'.lost = ledger.lost ]_vars

C28_Witness ==
    /\ op["rA"].name = "adminAction"
    /\ op["rA"].written = "throw"
    /\ op["rA"].outcome = "returned"
    /\ op["rB"].name = "flush"
    /\ op["rB"].written = "ok"
    /\ op["rB"].snap.buf = BUFFER_SIZE - 1
    /\ ledger.lost = 1
    /\ ledger.created = BUFFER_SIZE
    /\ buffer = << >>
    /\ Len(auditDb) = BUFFER_SIZE - 1
    /\ \A i \in 1..Len(auditDb) : auditDb[i].action # "admin_role_change"

\* C29: starting with at least one admin profile, after any interleaving of
\* updateUserRole calls at least one profile with role admin remains.
C29_AdminRemains ==
    \E u \in Users : profiles[u] = "admin"

\* the request paths that begin with /api/
ApiPaths == {"apiUsers"}

\* C30: for each client address the proxy lets at most 100 requests to
\* /api/ paths through per window: the first request of an address, or the
\* first one after resetTime has passed, starts a window with count 1 that
\* ends 60 seconds later; every other /api/ request adds one to the count,
\* passes while the count is at most 100 and is answered 429 with
\* Retry-After "60" beyond it; a request to another path changes no count
\* and is never answered 429; no request touches another address's window.
C30_RateLimitPerIp ==
    /\ [](\A ip \in ProxyIps :
            /\ passed[ip] <= RATE_LIMIT_MAX_REQUESTS
            /\ ipRequestCounts[ip].present =>
                 passed[ip] = IF ipRequestCounts[ip].count > RATE_LIMIT_MAX_REQUESTS
                              THEN RATE_LIMIT_MAX_REQUESTS ELSE ipRequestCounts[ip].count)
    /\ [][ proxyDone' # proxyDone =>
            LET ip == exchange'.ip
                status == exchange'.response.status
                before == ipRequestCounts[ip]
                after == ipRequestCounts'[ip]
            IN /\ \A other \in ProxyIps \ {ip} :
                    /\ ipRequestCounts'[other] = ipRequestCounts[other]
                    /\ passed'[other] = passed[other]
               /\ exchange'.path \notin ApiPaths =>
                    /\ after = before
                    /\ passed'[ip] = passed[ip]
                    /\ status # 429
               /\ exchange'.path \in ApiPaths =>
                    IF ~before.present \/ now \div 1000 > before.resetTime
                    THEN /\ after = [present |-> TRUE, count |-> 1,
                                     resetTime |-> (now \div 1000) + 60]
                         /\ passed'[ip] = 1
                         /\ status # 429
                    ELSE /\ after = [before EXCEPT !.count = @ + 1]
                         /\ IF after.count > 100
                            THEN /\ status = 429
                                 /\ exchange'.response.retryAfter = "60"
                                 /\ passed'[ip] = passed[ip]
                            ELSE /\ status # 429
                                 /\ passed'[ip] = passed[ip] + 1
         ]_vars

\* the 101st request of a window has just been answered 429
C30_Witness ==
    /\ exchange.path \in ApiPaths
    /\ exchange.ip = FirstIp
    /\ exchange.response.status = 429
    /\ exchange.response.retryAfter = "60"
    /\ ipRequestCounts[FirstIp].count = RATE_LIMIT_MAX_REQUESTS + 1
    /\ passed[FirstIp] = RATE_LIMIT_MAX_REQUESTS
    /\ proxyDone = 2

====
